---- MODULE Spec2Model ----
(***************************************************************************)
(* Model of the metrics engine of ecommerce-manager (engine/analyzer.py,   *)
(* models/order.py, models/product.py, models/store_summary.py) and of its *)
(* listing scorer and optimizer (optimizer/seo_scorer.py,                  *)
(* optimizer/listing_optimizer.py).                                        *)
(*                                                                         *)
(* Conventions of the model:                                               *)
(*   - a calendar date is an integer day number, a datetime is a record    *)
(*     [date, time]; datetime.date() drops the time;                       *)
(*   - amounts of money are integers, on which the code's float sums are   *)
(*     exact; a quotient of two amounts is the exact fraction [num, den]   *)
(*     in lowest terms with den > 0; the rounding of binary floating-point *)
(*     arithmetic on fractional amounts is not modelled;                   *)
(*   - Python's None for an optional string is the value None below;       *)
(*   - a dict is the sequence of its (key, value) entries in insertion     *)
(*     order, as Python dicts keep it;                                     *)
(*   - the engine's functions are pure: each action calls one function on  *)
(*     the order list of the state and stores the arguments and the        *)
(*     returned value in that function's result variable.                  *)
(***************************************************************************)
EXTENDS Integers, Sequences, FiniteSets, TLC

VARIABLES
    orders,             \* the list[Order] handed to the engine
    today,              \* date.today()
    period_metrics,     \* last call of calculate_period_metrics
    top_sellers,        \* last call of get_top_sellers
    country_breakdown,  \* last call of get_country_breakdown
    daily_revenue,      \* last call of get_daily_revenue
    store_summary,      \* a StoreSummary, or the last call of build_store_summary
    revenue_change,     \* last read of StoreSummary.revenue_change
    products,           \* the list[Product] handed to the engine and the scorer
    hash_seed,          \* the string-hash seed of the running interpreter
    derived,            \* last read of the derived properties of a record
    seo_score,          \* last call of score_listing
    optimization        \* last call of optimize_listing

vars == <<orders, today, period_metrics, top_sellers, country_breakdown,
          daily_revenue, store_summary, revenue_change,
          products, hash_seed, derived, seo_score, optimization>>

(***************************************************************************)
(* Bounds of the model.                                                    *)
(***************************************************************************)
MaxOrders == 2
MaxDay == 2

(***************************************************************************)
(* Values and helpers.                                                     *)
(***************************************************************************)
None == "<None>"

NoCall == [called |-> FALSE]

\* Python truthiness of an Optional[str]: None and "" are falsy.
Truthy(s) == s # None /\ s # ""

Abs(n) == IF n < 0 THEN -n ELSE n

RECURSIVE GCD(_, _)
GCD(a, b) == IF b = 0 THEN a ELSE GCD(b, a % b)

\* The exact quotient n / d (d # 0) in lowest terms with a positive denominator.
Quotient(n, d) ==
    LET g == GCD(Abs(n), Abs(d))
        s == IF d < 0 THEN -1 ELSE 1
    IN  [num |-> (s * n) \div g, den |-> (s * d) \div g]

Zero == [num |-> 0, den |-> 1]

\* The fraction q times the integer k.
Scale(q, k) == Quotient(q.num * k, q.den)

\* All sequences over S of length at most n.
SeqsUpTo(S, n) == UNION {[1..k -> S] : k \in 0..n}

\* Python's sum() over a list of numbers: a left fold from 0.
RECURSIVE sum(_)
sum(s) == IF s = <<>> THEN 0 ELSE sum(SubSeq(s, 1, Len(s) - 1)) + s[Len(s)]

(***************************************************************************)
(* models/order.py                                                         *)
(***************************************************************************)
\* OrderItem.total_price
total_price(item) == item.quantity * item.unit_price

\* Order.gross_revenue
gross_revenue(o) == o.subtotal + o.shipping_cost

\* Order.total_fees
total_fees(o) == o.platform_fee + o.payment_processing_fee

\* Mutation of net_revenue only: the discount is subtracted.
NetRevenueLessDiscount(o) == gross_revenue(o) - total_fees(o) - o.tax - o.discount

\* Order.net_revenue
net_revenue(o) == gross_revenue(o) - total_fees(o) - o.tax + o.discount

\* Order.item_count
item_count(o) == sum([i \in 1..Len(o.items) |-> o.items[i].quantity])

\* An Order as the dataclass builds it when only the required fields are given.
DefaultOrder ==
    [platform |-> "etsy",
     order_date |-> [date |-> 0, time |-> 0],
     items |-> <<>>,
     buyer_name |-> None,
     buyer_country |-> None,
     subtotal |-> 0,
     shipping_cost |-> 0,
     tax |-> 0,
     discount |-> 0,
     platform_fee |-> 0,
     payment_processing_fee |-> 0]

\* datetime.date()
DateOf(dt) == dt.date

(***************************************************************************)
(* engine/analyzer.py: calculate_period_metrics                            *)
(***************************************************************************)
InPeriodOpenEnd(o, start_date, end_date) ==
    start_date <= DateOf(o.order_date) /\ DateOf(o.order_date) < end_date

InPeriodOpenStart(o, start_date, end_date) ==
    start_date < DateOf(o.order_date) /\ DateOf(o.order_date) <= end_date

\* The filter of the list comprehension: start_date <= o.order_date.date() <= end_date.
InPeriod(o, start_date, end_date) ==
    start_date <= DateOf(o.order_date) /\ DateOf(o.order_date) <= end_date

PeriodOrders(os, start_date, end_date) ==
    SelectSeq(os, LAMBDA o : InPeriod(o, start_date, end_date))

BuyersUnfiltered(period_orders) ==
    {period_orders[i].buyer_name : i \in 1..Len(period_orders)}

\* The set buyers: the truthy buyer_name of every order of the period.
Buyers(period_orders) ==
    {period_orders[i].buyer_name :
        i \in {j \in 1..Len(period_orders) : Truthy(period_orders[j].buyer_name)}}

calculate_period_metrics(os, start_date, end_date) ==
    LET period_orders == PeriodOrders(os, start_date, end_date)
        buyers == Buyers(period_orders)
        total_orders == Len(period_orders)
        n == Len(period_orders)
        gross == sum([i \in 1..n |-> gross_revenue(period_orders[i])])
        fees == sum([i \in 1..n |-> total_fees(period_orders[i])])
        net == sum([i \in 1..n |-> net_revenue(period_orders[i])])
        shipping == sum([i \in 1..n |-> period_orders[i].shipping_cost])
        items == sum([i \in 1..n |-> item_count(period_orders[i])])
    IN  [period_start |-> start_date,
         period_end |-> end_date,
         total_orders |-> total_orders,
         total_items_sold |-> items,
         gross_revenue |-> gross,
         total_fees |-> fees,
         net_revenue |-> net,
         shipping_collected |-> shipping,
         refunds |-> 0,
         avg_order_value |->
            IF total_orders > 0 THEN Quotient(gross, total_orders) ELSE Zero,
         unique_buyers |-> Cardinality(buyers)]

(***************************************************************************)
(* Inputs of calculate_period_metrics.                                     *)
(***************************************************************************)
Days == 0..MaxDay
Times == {0, 1}

\* The financial side of an order: amounts in cents and the line items.
Item(pid, title, qty, price) ==
    [product_id |-> pid, product_title |-> title, quantity |-> qty, unit_price |-> price]

Financials ==
    { [subtotal |-> 1000, shipping_cost |-> 200, tax |-> 30, discount |-> 0,
       platform_fee |-> 65, payment_processing_fee |-> 55,
       items |-> <<Item("p1", "Mug", 2, 400), Item("p2", "Lamp", 1, 200)>>],
      [subtotal |-> 0, shipping_cost |-> 300, tax |-> 80, discount |-> 7,
       platform_fee |-> 400, payment_processing_fee |-> 0,
       items |-> <<>>] }

WithFinancials(o, f) ==
    [o EXCEPT !.subtotal = f.subtotal, !.shipping_cost = f.shipping_cost,
              !.tax = f.tax, !.discount = f.discount,
              !.platform_fee = f.platform_fee,
              !.payment_processing_fee = f.payment_processing_fee,
              !.items = f.items]

\* Orders that differ in date, time of day and amounts.
DatedOrders ==
    {WithFinancials([DefaultOrder EXCEPT !.order_date = [date |-> d, time |-> t]], f) :
        d \in Days, t \in Times, f \in Financials}

BuyerNames == {None, "", "ann", "bob"}

\* Orders that differ in date and buyer name.
BuyerOrders ==
    {[DefaultOrder EXCEPT !.order_date = [date |-> d, time |-> 0],
                          !.buyer_name = b, !.subtotal = 100] :
        d \in Days, b \in BuyerNames}

NoResults ==
    /\ period_metrics = NoCall
    /\ top_sellers = NoCall
    /\ country_breakdown = NoCall
    /\ daily_revenue = NoCall
    /\ store_summary = NoCall
    /\ revenue_change = NoCall
    /\ derived = NoCall
    /\ seo_score = NoCall
    /\ optimization = NoCall

\* The engine's functions that take no product are run on no product.
NoProducts ==
    /\ products = <<>>
    /\ hash_seed = 0

InitMetrics ==
    /\ \/ orders \in SeqsUpTo(DatedOrders, MaxOrders)
       \/ orders \in SeqsUpTo(BuyerOrders, MaxOrders)
    /\ today = 0
    /\ NoResults
    /\ NoProducts

\* A call calculate_period_metrics(orders, start_date, end_date).
CalculatePeriodMetrics ==
    \E start_date \in Days, end_date \in Days :
        /\ period_metrics' =
            [called |-> TRUE, start_date |-> start_date, end_date |-> end_date,
             ret |-> calculate_period_metrics(orders, start_date, end_date)]
        /\ UNCHANGED <<orders, today, top_sellers, country_breakdown,
                       daily_revenue, store_summary, revenue_change,
                       products, hash_seed, derived, seo_score, optimization>>

NextMetrics == CalculatePeriodMetrics

SpecMetrics == InitMetrics /\ [][NextMetrics]_vars

(***************************************************************************)
(* engine/analyzer.py: get_top_sellers                                     *)
(***************************************************************************)
\* The items in iteration order: for order in orders: for item in order.items.
RECURSIVE IteratedItems(_)
IteratedItems(os) ==
    IF os = <<>> THEN <<>>
    ELSE IteratedItems(SubSeq(os, 1, Len(os) - 1)) \o os[Len(os)].items

UpdateStatsFirstTitle(stats, item) ==
    IF \E i \in 1..Len(stats) : stats[i].pid = item.product_id
    THEN LET i == CHOOSE j \in 1..Len(stats) : stats[j].pid = item.product_id
         IN  [stats EXCEPT ![i] = [pid |-> item.product_id,
                                   title |-> stats[i].title,
                                   units |-> stats[i].units + item.quantity,
                                   revenue |-> stats[i].revenue + total_price(item)]]
    ELSE Append(stats, [pid |-> item.product_id,
                        title |-> item.product_title,
                        units |-> 0 + item.quantity,
                        revenue |-> 0 + total_price(item)])

\* One pass of the loop body on the dict product_stats (entries in insertion
\* order): a missing pid is inserted with the defaults, then title is
\* overwritten and units and revenue are increased.
UpdateStats(stats, item) ==
    IF \E i \in 1..Len(stats) : stats[i].pid = item.product_id
    THEN LET i == CHOOSE j \in 1..Len(stats) : stats[j].pid = item.product_id
         IN  [stats EXCEPT ![i] = [pid |-> item.product_id,
                                   title |-> item.product_title,
                                   units |-> stats[i].units + item.quantity,
                                   revenue |-> stats[i].revenue + total_price(item)]]
    ELSE Append(stats, [pid |-> item.product_id,
                        title |-> item.product_title,
                        units |-> 0 + item.quantity,
                        revenue |-> 0 + total_price(item)])

\* product_stats after the loop over the given items.
RECURSIVE ProductStats(_)
ProductStats(items) ==
    IF items = <<>> THEN <<>>
    ELSE UpdateStats(ProductStats(SubSeq(items, 1, Len(items) - 1)), items[Len(items)])

PlaceAfterGreater(rest, x) ==
    LET k == Cardinality({i \in 1..Len(rest) : rest[i].key > x.key})
    IN  SubSeq(rest, 1, k) \o <<x>> \o SubSeq(rest, k + 1, Len(rest))

\* Where the stable descending sort puts x in the sorted list rest of the
\* elements that precede it: after every element whose key is >= its own.
PlaceAfterGreaterOrEqual(rest, x) ==
    LET k == Cardinality({i \in 1..Len(rest) : rest[i].key >= x.key})
    IN  SubSeq(rest, 1, k) \o <<x>> \o SubSeq(rest, k + 1, Len(rest))

\* sorted(..., key=..., reverse=True) on a list of [key, item]: descending by
\* key, elements with equal keys in their original order.
RECURSIVE sorted_reverse(_)
sorted_reverse(s) ==
    IF s = <<>> THEN <<>>
    ELSE PlaceAfterGreaterOrEqual(sorted_reverse(SubSeq(s, 1, Len(s) - 1)), s[Len(s)])

SliceOneMore(s, limit) ==
    IF limit + 1 >= Len(s) THEN s ELSE SubSeq(s, 1, limit + 1)

\* s[:limit]
Slice(s, limit) ==
    IF limit >= 0
    THEN IF limit >= Len(s) THEN s ELSE SubSeq(s, 1, limit)
    ELSE IF Len(s) + limit <= 0 THEN <<>> ELSE SubSeq(s, 1, Len(s) + limit)

\* ProductPerformance(product_id, title, units_sold, revenue)
ProductPerformance(pid, stats) ==
    [product_id |-> pid, title |-> stats.title, units_sold |-> stats.units,
     revenue |-> stats.revenue, views |-> 0, conversion_rate |-> Zero]

get_top_sellers(os, limit) ==
    LET product_stats == ProductStats(IteratedItems(os))
        sorted_products ==
            sorted_reverse([i \in 1..Len(product_stats) |->
                [key |-> product_stats[i].revenue, item |-> product_stats[i]]])
        top == Slice(sorted_products, limit)
    IN  [i \in 1..Len(top) |-> ProductPerformance(top[i].item.pid, top[i].item)]

(***************************************************************************)
(* Inputs of get_top_sellers.                                              *)
(***************************************************************************)
MaxItems == 3

\* Line items: three products, two recorded titles for p1, revenues 50 and 100.
Items ==
    { Item("p1", "Mug", 1, 100), Item("p1", "Mug XL", 2, 50), Item("p1", "Mug", 1, 50),
      Item("p2", "Lamp", 1, 100), Item("p2", "Lamp", 1, 50),
      Item("p3", "Bag", 2, 50), Item("p3", "Bag", 1, 50) }

\* The items of fl owned by order k: owner is non-decreasing, so they are
\* consecutive in fl.
ItemsOwned(fl, owner, k) ==
    LET I == {i \in 1..Len(fl) : owner[i] = k}
    IN  IF I = {} THEN <<>>
        ELSE SubSeq(fl, CHOOSE i \in I : \A j \in I : i <= j,
                        CHOOSE i \in I : \A j \in I : j <= i)

\* The lists of MaxOrders orders (some may have no item) whose items, in
\* iteration order, are the list fl.
OrdersHolding(fl) ==
    {[k \in 1..MaxOrders |-> [DefaultOrder EXCEPT !.items = ItemsOwned(fl, owner, k)]] :
        owner \in {f \in [1..Len(fl) -> 1..MaxOrders] :
                    \A i, j \in 1..Len(fl) : i < j => f[i] <= f[j]}}

Limits == {-1, 0, 1, 2, 10}

InitTop ==
    /\ \E fl \in SeqsUpTo(Items, MaxItems) : orders \in OrdersHolding(fl)
    /\ today = 0
    /\ NoResults
    /\ NoProducts

\* A call get_top_sellers(orders, limit).
GetTopSellers ==
    \E limit \in Limits :
        /\ top_sellers' = [called |-> TRUE, limit |-> limit,
                           ret |-> get_top_sellers(orders, limit)]
        /\ UNCHANGED <<orders, today, period_metrics, country_breakdown,
                       daily_revenue, store_summary, revenue_change,
                       products, hash_seed, derived, seo_score, optimization>>

NextTop == GetTopSellers

SpecTop == InitTop /\ [][NextTop]_vars

(***************************************************************************)
(* engine/analyzer.py: get_country_breakdown                               *)
(***************************************************************************)
HasCountryUnlessNone(o) == o.buyer_country # None

\* The filter of the generator: if o.buyer_country.
HasCountry(o) == Truthy(o.buyer_country)

\* One element counted by Counter: a new key is inserted with count 1.
CountElement(counts, x) ==
    IF \E i \in 1..Len(counts) : counts[i].elem = x
    THEN LET i == CHOOSE j \in 1..Len(counts) : counts[j].elem = x
         IN  [counts EXCEPT ![i].count = @ + 1]
    ELSE Append(counts, [elem |-> x, count |-> 1])

\* Counter(iterable): the entries [elem, count] in order of first occurrence.
RECURSIVE Counter(_)
Counter(xs) ==
    IF xs = <<>> THEN <<>>
    ELSE CountElement(Counter(SubSeq(xs, 1, Len(xs) - 1)), xs[Len(xs)])

InsertionOrder(counts) == counts

\* Counter.most_common(): sorted(items, key=count, reverse=True).
most_common(counts) ==
    LET sorted_items ==
            sorted_reverse([i \in 1..Len(counts) |->
                [key |-> counts[i].count, item |-> counts[i]]])
    IN  [i \in 1..Len(sorted_items) |-> sorted_items[i].item]

\* dict(pairs): the entries [key, value] in the order of the pairs.
get_country_breakdown(os) ==
    LET with_country == SelectSeq(os, HasCountry)
        countries == [i \in 1..Len(with_country) |-> with_country[i].buyer_country]
        common == most_common(Counter(countries))
    IN  [i \in 1..Len(common) |-> [key |-> common[i].elem, value |-> common[i].count]]

(***************************************************************************)
(* Inputs of get_country_breakdown.                                        *)
(***************************************************************************)
MaxCountryOrders == 4

Countries == {None, "", "US", "TR", "DE"}

CountryOrders == {[DefaultOrder EXCEPT !.buyer_country = c] : c \in Countries}

InitCountry ==
    /\ orders \in SeqsUpTo(CountryOrders, MaxCountryOrders)
    /\ today = 0
    /\ NoResults
    /\ NoProducts

\* A call get_country_breakdown(orders).
GetCountryBreakdown ==
    /\ country_breakdown' = [called |-> TRUE, ret |-> get_country_breakdown(orders)]
    /\ UNCHANGED <<orders, today, period_metrics, top_sellers,
                   daily_revenue, store_summary, revenue_change,
                   products, hash_seed, derived, seo_score, optimization>>

NextCountry == GetCountryBreakdown

SpecCountry == InitCountry /\ [][NextCountry]_vars

(***************************************************************************)
(* engine/analyzer.py: get_daily_revenue                                   *)
(***************************************************************************)
RECURSIVE SeedDaysBeforeEnd(_, _)
SeedDaysBeforeEnd(current, end) ==
    IF current < end
    THEN <<[key |-> current, value |-> 0]>> \o SeedDaysBeforeEnd(current + 1, end)
    ELSE <<>>

\* The while loop: daily[current] = 0.0 for every current from start while
\* current <= end.
RECURSIVE SeedDays(_, _)
SeedDays(current, end) ==
    IF current <= end
    THEN <<[key |-> current, value |-> 0]>> \o SeedDays(current + 1, end)
    ELSE <<>>

\* One pass of the second loop: if d in daily: daily[d] += order.gross_revenue.
AddToDay(daily, order) ==
    LET d == DateOf(order.order_date)
    IN  IF \E i \in 1..Len(daily) : daily[i].key = d
        THEN LET i == CHOOSE j \in 1..Len(daily) : daily[j].key = d
             IN  [daily EXCEPT ![i].value = @ + gross_revenue(order)]
        ELSE daily

RECURSIVE AddOrders(_, _)
AddOrders(daily, os) ==
    IF os = <<>> THEN daily
    ELSE AddToDay(AddOrders(daily, SubSeq(os, 1, Len(os) - 1)), os[Len(os)])

get_daily_revenue(os, days) ==
    LET end == today
        start == end - days
    IN  AddOrders(SeedDays(start, end), os)

(***************************************************************************)
(* Inputs of get_daily_revenue.                                            *)
(***************************************************************************)
\* Orders that differ in date, time of day and subtotal; shipping is charged.
RevenueOrders ==
    {[DefaultOrder EXCEPT !.order_date = [date |-> d, time |-> t],
                          !.subtotal = a, !.shipping_cost = 20] :
        d \in Days, t \in Times, a \in {100, 250}}

DayCounts == -1..MaxDay

InitDaily ==
    /\ orders \in SeqsUpTo(RevenueOrders, MaxOrders)
    /\ today \in Days
    /\ NoResults
    /\ NoProducts

\* A call get_daily_revenue(orders, days).
GetDailyRevenue ==
    \E days \in DayCounts :
        /\ daily_revenue' = [called |-> TRUE, days |-> days,
                             ret |-> get_daily_revenue(orders, days)]
        /\ UNCHANGED <<orders, today, period_metrics, top_sellers,
                       country_breakdown, store_summary, revenue_change,
                       products, hash_seed, derived, seo_score, optimization>>

NextDaily == GetDailyRevenue

SpecDaily == InitDaily /\ [][NextDaily]_vars

(***************************************************************************)
(* models/store_summary.py: StoreSummary.revenue_change                    *)
(*                                                                         *)
(* An Optional[PeriodMetrics] or Optional[float] is <<>> for None and      *)
(* <<x>> for the value x.                                                  *)
(***************************************************************************)
NoValue == <<>>

Some(x) == <<x>>

\* PeriodMetrics(period_start, period_end) with the dataclass defaults.
DefaultPeriodMetrics(period_start, period_end) ==
    [period_start |-> period_start,
     period_end |-> period_end,
     total_orders |-> 0,
     total_items_sold |-> 0,
     gross_revenue |-> 0,
     total_fees |-> 0,
     net_revenue |-> 0,
     shipping_collected |-> 0,
     refunds |-> 0,
     avg_order_value |-> Zero,
     unique_buyers |-> 0]

RevenueChangeZeroForNoRevenue(summary) ==
    IF \/ summary.previous_period = NoValue
       \/ summary.current_period = NoValue
    THEN NoValue
    ELSE LET curr == summary.current_period[1].gross_revenue
             prev == summary.previous_period[1].gross_revenue
         IN  IF prev = 0 THEN Some(Zero) ELSE Some(Scale(Quotient(curr - prev, prev), 100))

\* The property revenue_change: ((curr - prev) / prev) * 100, or None.
RevenueChange(summary) ==
    IF \/ summary.previous_period = NoValue
       \/ summary.current_period = NoValue
       \/ summary.previous_period[1].gross_revenue = 0
    THEN NoValue
    ELSE LET curr == summary.current_period[1].gross_revenue
             prev == summary.previous_period[1].gross_revenue
         IN  Some(Scale(Quotient(curr - prev, prev), 100))

(***************************************************************************)
(* Inputs of StoreSummary.revenue_change.                                  *)
(***************************************************************************)
GrossRevenues == {-120, 0, 50, 120, 150, 240, 365}

OptionalPeriods ==
    {NoValue} \cup
    {Some([DefaultPeriodMetrics(0, 0) EXCEPT !.gross_revenue = g]) : g \in GrossRevenues}

InitSummary ==
    /\ orders = <<>>
    /\ today = 0
    /\ period_metrics = NoCall
    /\ top_sellers = NoCall
    /\ country_breakdown = NoCall
    /\ daily_revenue = NoCall
    /\ store_summary \in [current_period : OptionalPeriods, previous_period : OptionalPeriods]
    /\ revenue_change = NoCall
    /\ derived = NoCall
    /\ seo_score = NoCall
    /\ optimization = NoCall
    /\ NoProducts

\* A read of store_summary.revenue_change.
ReadRevenueChange ==
    /\ revenue_change' = [called |-> TRUE, ret |-> RevenueChange(store_summary)]
    /\ UNCHANGED <<orders, today, period_metrics, top_sellers, country_breakdown,
                   daily_revenue, store_summary,
                   products, hash_seed, derived, seo_score, optimization>>

NextSummary == ReadRevenueChange

SpecSummary == InitSummary /\ [][NextSummary]_vars

(***************************************************************************)
(* models/product.py: Product.  A string whose characters the code reads   *)
(* (a title, a tag, a description) is the sequence of its characters; an   *)
(* Optional[str] of that kind is NoValue or Some(characters).  The fields  *)
(* no modelled function reads (price, currency, sku, category, dates,      *)
(* costs, raw_data) are left out.                                          *)
(***************************************************************************)
Platforms == {"etsy", "amazon"}

DefaultProduct ==
    [product_id |-> "p1",
     platform |-> "etsy",
     title |-> <<>>,
     description |-> NoValue,
     tags |-> <<>>,
     status |-> "active",
     quantity |-> 0,
     views |-> 0,
     favorites |-> 0,
     total_sold |-> 0,
     price |-> 1000]

(***************************************************************************)
(* engine/analyzer.py: build_store_summary.                                *)
(***************************************************************************)
current_start(period_days) == today - period_days

previous_start(period_days) == current_start(period_days) - period_days

\* Mutation of previous_end only: the previous window ends on the day the
\* current one starts.
PreviousEndOnCurrentStart(period_days) == current_start(period_days)

previous_end(period_days) == current_start(period_days) - 1

\* Mutation of platform_orders only: the orders are not filtered.
AllOrders(os, platform) == os

platform_orders(os, platform) == SelectSeq(os, LAMBDA o : o.platform = platform)

platform_products(ps, platform) == SelectSeq(ps, LAMBDA p : p.platform = platform)

\* [p.title for p in ps if keep(p)] for the two stock lists.
low_stock(ps) ==
    LET kept == SelectSeq(ps, LAMBDA p : 0 < p.quantity /\ p.quantity <= 5)
    IN  [i \in 1..Len(kept) |-> kept[i].title]

out_of_stock(ps) ==
    LET kept == SelectSeq(ps, LAMBDA p : p.quantity = 0)
    IN  [i \in 1..Len(kept) |-> kept[i].title]

build_store_summary(os, ps, platform, store_name, period_days) ==
    LET pos == platform_orders(os, platform)
        pps == platform_products(ps, platform)
        current_metrics ==
            calculate_period_metrics(pos, current_start(period_days), today)
        previous_metrics ==
            calculate_period_metrics(pos, previous_start(period_days),
                                     previous_end(period_days))
        active == SelectSeq(pps, LAMBDA p : p.status = "active")
        total_views == sum([i \in 1..Len(pps) |-> pps[i].views])
        total_sold == sum([i \in 1..Len(pps) |-> pps[i].total_sold])
    IN  [platform |-> platform,
         store_name |-> store_name,
         report_date |-> today,
         current_period |-> Some(current_metrics),
         previous_period |-> Some(previous_metrics),
         top_sellers |-> get_top_sellers(pos, 10),
         low_performers |-> <<>>,
         low_stock_products |-> low_stock(pps),
         out_of_stock_products |-> out_of_stock(pps),
         total_active_listings |-> Len(active),
         total_views |-> total_views,
         overall_conversion_rate |->
            IF total_views > 0
            THEN Scale(Quotient(total_sold, total_views), 100)
            ELSE Zero]

(***************************************************************************)
(* Inputs of build_store_summary: orders and products of both platforms,   *)
(* orders dated on every day of the two windows and on the day before.     *)
(***************************************************************************)
MaxPeriodDays == 2
MaxProducts == 2

PeriodDays == 0..MaxPeriodDays

StoreToday == 2 * MaxPeriodDays + 1

Mug == <<"M", "u", "g">>

Lamp == <<"L", "a", "m", "p">>

StoreOrders ==
    {WithFinancials([DefaultOrder EXCEPT !.platform = pl,
                                         !.order_date = [date |-> d, time |-> 1]],
                    CHOOSE f \in Financials : f.items # <<>>) :
        pl \in Platforms, d \in 0..StoreToday}

Listings ==
    { [status |-> "active", views |-> 200, total_sold |-> 5],
      [status |-> "inactive", views |-> 0, total_sold |-> 0],
      [status |-> "active", views |-> 0, total_sold |-> 3] }

StoreProducts ==
    {[DefaultProduct EXCEPT !.platform = pl,
                            !.title = IF pl = "etsy" THEN Mug ELSE Lamp,
                            !.quantity = q,
                            !.status = l.status,
                            !.views = l.views,
                            !.total_sold = l.total_sold] :
        pl \in Platforms, q \in {0, 5, 6}, l \in Listings}

\* One order of each platform, both of today.
MixedOrders ==
    [i \in 1..2 |->
        WithFinancials([DefaultOrder EXCEPT
                            !.platform = IF i = 1 THEN "amazon" ELSE "etsy",
                            !.order_date = [date |-> StoreToday, time |-> 1]],
                       CHOOSE f \in Financials : f.items # <<>>)]

\* One product of each platform: one out of stock, one low on stock.
MixedProducts ==
    [i \in 1..2 |->
        [DefaultProduct EXCEPT !.platform = IF i = 1 THEN "etsy" ELSE "amazon",
                               !.title = IF i = 1 THEN Mug ELSE Lamp,
                               !.quantity = IF i = 1 THEN 0 ELSE 5,
                               !.views = 200,
                               !.total_sold = 5]]

InitStore ==
    /\ today = StoreToday
    /\ hash_seed = 0
    /\ \/ /\ orders \in SeqsUpTo(StoreOrders, MaxOrders)
          /\ products = MixedProducts
       \/ /\ orders = MixedOrders
          /\ products \in SeqsUpTo(StoreProducts, MaxProducts)
    /\ NoResults

\* A call build_store_summary(orders, products, platform, store_name,
\* period_days).
BuildStoreSummary ==
    \E platform \in Platforms, period_days \in PeriodDays :
        /\ store_summary' =
              [called |-> TRUE, platform |-> platform, store_name |-> "shop",
               period_days |-> period_days,
               ret |-> build_store_summary(orders, products, platform, "shop",
                                           period_days)]
        /\ UNCHANGED <<orders, today, period_metrics, top_sellers,
                       country_breakdown, daily_revenue, revenue_change,
                       products, hash_seed, derived, seo_score, optimization>>

NextStore == BuildStoreSummary

SpecStore == InitStore /\ [][NextStore]_vars

(***************************************************************************)
(* Derived properties: Product.conversion_rate, Product.favorite_rate      *)
(* (models/product.py) and PeriodMetrics.fee_percentage                    *)
(* (models/store_summary.py).                                              *)
(***************************************************************************)
\* Mutation of conversion_rate only: a product without views is rated as if
\* it had one view.
ConversionRateOfOneView(p) ==
    Scale(Quotient(p.total_sold, IF p.views = 0 THEN 1 ELSE p.views), 100)

\* Product.conversion_rate
conversion_rate(p) ==
    IF p.views = 0 THEN Zero ELSE Scale(Quotient(p.total_sold, p.views), 100)

\* Product.favorite_rate
favorite_rate(p) ==
    IF p.views = 0 THEN Zero ELSE Scale(Quotient(p.favorites, p.views), 100)

\* PeriodMetrics.fee_percentage
fee_percentage(m) ==
    IF m.gross_revenue = 0 THEN Zero
    ELSE Scale(Quotient(m.total_fees, m.gross_revenue), 100)

(***************************************************************************)
(* Inputs of the derived properties: single orders whose six amounts vary  *)
(* independently (with a negative discount and amounts that make the net   *)
(* revenue negative), pairs of orders, and single products.                *)
(***************************************************************************)
MoneyOrders ==
    {[DefaultOrder EXCEPT !.subtotal = s, !.shipping_cost = sh, !.tax = t,
                          !.discount = d, !.platform_fee = pf,
                          !.payment_processing_fee = ppf, !.items = its] :
        s \in {0, 1000}, sh \in {0, 200}, t \in {0, 30}, d \in {-7, 0, 500},
        pf \in {0, 650}, ppf \in {0, 55},
        its \in {<<>>, <<Item("p1", "Mug", 2, 400), Item("p2", "Lamp", 1, 200)>>}}

RatedProducts ==
    {[DefaultProduct EXCEPT !.views = v, !.favorites = f, !.total_sold = ts] :
        v \in {0, 200}, f \in {0, 30}, ts \in {0, 5}}

InitDerived ==
    /\ today = 0
    /\ \/ /\ orders \in SeqsUpTo(MoneyOrders, 1)
          /\ products = <<>>
       \/ /\ orders \in SeqsUpTo({WithFinancials(DefaultOrder, f) : f \in Financials},
                                 MaxOrders)
          /\ products = <<>>
       \/ /\ orders = <<>>
          /\ products \in SeqsUpTo(RatedProducts, MaxProducts)
    /\ hash_seed = 0
    /\ NoResults

\* A read of the four properties of orders[i].
ReadOrder ==
    \E i \in 1..Len(orders) :
        /\ derived' = [called |-> TRUE, of |-> "Order", index |-> i,
                       gross_revenue |-> gross_revenue(orders[i]),
                       total_fees |-> total_fees(orders[i]),
                       net_revenue |-> net_revenue(orders[i]),
                       item_count |-> item_count(orders[i])]
        /\ UNCHANGED <<orders, today, period_metrics, top_sellers,
                       country_breakdown, daily_revenue, store_summary,
                       revenue_change, products, hash_seed, seo_score,
                       optimization>>

\* A read of the two rates of products[i].
ReadProduct ==
    \E i \in 1..Len(products) :
        /\ derived' = [called |-> TRUE, of |-> "Product", index |-> i,
                       conversion_rate |-> conversion_rate(products[i]),
                       favorite_rate |-> favorite_rate(products[i])]
        /\ UNCHANGED <<orders, today, period_metrics, top_sellers,
                       country_breakdown, daily_revenue, store_summary,
                       revenue_change, products, hash_seed, seo_score,
                       optimization>>

\* A read of fee_percentage of the PeriodMetrics that
\* calculate_period_metrics returned.
ReadFeePercentage ==
    /\ period_metrics.called
    /\ derived' = [called |-> TRUE, of |-> "PeriodMetrics",
                   metrics |-> period_metrics.ret,
                   fee_percentage |-> fee_percentage(period_metrics.ret)]
    /\ UNCHANGED <<orders, today, period_metrics, top_sellers,
                   country_breakdown, daily_revenue, store_summary,
                   revenue_change, products, hash_seed, seo_score,
                   optimization>>

NextDerived ==
    \/ CalculatePeriodMetrics
    \/ ReadOrder
    \/ ReadProduct
    \/ ReadFeePercentage

SpecDerived == InitDerived /\ [][NextDerived]_vars

(***************************************************************************)
(* Python strings whose characters the scorer reads.  A str is the         *)
(* sequence of its characters; the characters are ASCII letters, digits,   *)
(* punctuation and white space.                                            *)
(***************************************************************************)
Range(s) == {s[i] : i \in 1..Len(s)}

\* Mutation of Min only: the first argument is returned.
MinOfFirst(a, b) == a

Min(a, b) == IF a < b THEN a ELSE b

Max(a, b) == IF a < b THEN b ELSE a

UppercaseLetters ==
    <<"A", "B", "C", "D", "E", "F", "G", "H", "I", "J", "K", "L", "M">> \o
    <<"N", "O", "P", "Q", "R", "S", "T", "U", "V", "W", "X", "Y", "Z">>

LowercaseLetters ==
    <<"a", "b", "c", "d", "e", "f", "g", "h", "i", "j", "k", "l", "m">> \o
    <<"n", "o", "p", "q", "r", "s", "t", "u", "v", "w", "x", "y", "z">>

Uppercase == Range(UppercaseLetters)

Lowercase == Range(LowercaseLetters)

Whitespace == {" ", "\t", "\n"}

\* str.lower() on one character.
LowerChar(c) ==
    IF c \in Uppercase
    THEN LowercaseLetters[CHOOSE i \in 1..Len(UppercaseLetters) : UppercaseLetters[i] = c]
    ELSE c

\* str.upper() on one character.
UpperChar(c) ==
    IF c \in Lowercase
    THEN UppercaseLetters[CHOOSE i \in 1..Len(LowercaseLetters) : LowercaseLetters[i] = c]
    ELSE c

\* str.lower()
lower(s) == [i \in 1..Len(s) |-> LowerChar(s[i])]

\* str.upper()
upper(s) == [i \in 1..Len(s) |-> UpperChar(s[i])]

\* Mutation of isupper only: a string without cased characters is upper case.
IsUpperWithoutCased(s) == \A i \in 1..Len(s) : s[i] \notin Lowercase

\* str.isupper(): there is a cased character and no cased character is
\* lowercase.
isupper(s) ==
    /\ \E i \in 1..Len(s) : s[i] \in Uppercase
    /\ \A i \in 1..Len(s) : s[i] \notin Lowercase

\* The k-th smallest element of a set of integers.
Kth(S, k) == CHOOSE i \in S : Cardinality({j \in S : j < i}) = k - 1

\* str.split() without arguments: the maximal runs of characters that are
\* not white space, in order.  A run starts at a character that is not white
\* space and follows white space or nothing, and ends at one that is followed
\* by white space or nothing.
split(s) ==
    LET starts == {i \in 1..Len(s) :
                      s[i] \notin Whitespace /\ (i = 1 \/ s[i - 1] \in Whitespace)}
        ends == {i \in 1..Len(s) :
                    s[i] \notin Whitespace /\ (i = Len(s) \/ s[i + 1] \in Whitespace)}
    IN  [k \in 1..Cardinality(starts) |-> SubSeq(s, Kth(starts, k), Kth(ends, k))]

\* w in s, for two strings: w occurs in s as a run of consecutive characters.
Contains(s, w) ==
    \E i \in 1..(Len(s) - Len(w) + 1) : \A j \in 1..Len(w) : s[i + j - 1] = w[j]

\* sep.join(ws)
RECURSIVE join(_, _)
join(sep, ws) ==
    IF ws = <<>> THEN <<>>
    ELSE IF Len(ws) = 1 THEN ws[1]
    ELSE ws[1] \o sep \o join(sep, Tail(ws))

(***************************************************************************)
(* optimizer/seo_scorer.py: the rule tables and the word sets.             *)
(***************************************************************************)
ETSY_TITLE_RULES ==
    [min_length |-> 40, max_length |-> 140, min_words |-> 5, ideal_words |-> <<8, 15>>]

\* The tag rules with one more tag asked for.
EtsyTagRulesOfEleven == [max_tags |-> 13, min_tags |-> 11, max_chars_per_tag |-> 20]

ETSY_TAG_RULES == [max_tags |-> 13, min_tags |-> 10, max_chars_per_tag |-> 20]

AMAZON_TITLE_RULES ==
    [min_length |-> 80, max_length |-> 200, min_words |-> 8, ideal_words |-> <<10, 25>>]

WEAK_WORDS ==
    { <<"n", "i", "c", "e">>,
      <<"g", "o", "o", "d">>,
      <<"g", "r", "e", "a", "t">>,
      <<"b", "e", "a", "u", "t", "i", "f", "u", "l">>,
      <<"a", "m", "a", "z", "i", "n", "g">>,
      <<"a", "w", "e", "s", "o", "m", "e">>,
      <<"b", "e", "s", "t">>,
      <<"p", "e", "r", "f", "e", "c", "t">>,
      <<"u", "n", "i", "q", "u", "e">>,
      <<"s", "p", "e", "c", "i", "a", "l">>,
      <<"c", "u", "t", "e">>,
      <<"l", "o", "v", "e", "l", "y">>,
      <<"p", "r", "e", "t", "t", "y">>,
      <<"w", "o", "n", "d", "e", "r", "f", "u", "l">>,
      <<"e", "x", "c", "e", "l", "l", "e", "n", "t">>,
      <<"f", "a", "n", "t", "a", "s", "t", "i", "c">>,
      <<"g", "o", "r", "g", "e", "o", "u", "s">> }

\* The power words in the order of the set display of the source.
PowerWordsWritten ==
    << <<"h", "a", "n", "d", "m", "a", "d", "e">>,
       <<"c", "u", "s", "t", "o", "m">>,
       <<"p", "e", "r", "s", "o", "n", "a", "l", "i", "z", "e", "d">>,
       <<"o", "r", "g", "a", "n", "i", "c">>,
       <<"v", "i", "n", "t", "a", "g", "e">>,
       <<"p", "r", "e", "m", "i", "u", "m">>,
       <<"l", "u", "x", "u", "r", "y">>,
       <<"e", "c", "o", "-", "f", "r", "i", "e", "n", "d", "l", "y">>,
       <<"s", "u", "s", "t", "a", "i", "n", "a", "b", "l", "e">>,
       <<"a", "r", "t", "i", "s", "a", "n">>,
       <<"m", "i", "n", "i", "m", "a", "l", "i", "s", "t">>,
       <<"b", "o", "h", "o">>,
       <<"r", "u", "s", "t", "i", "c">>,
       <<"m", "o", "d", "e", "r", "n">>,
       <<"g", "i", "f", "t">>,
       <<"w", "e", "d", "d", "i", "n", "g">>,
       <<"b", "i", "r", "t", "h", "d", "a", "y">>,
       <<"c", "h", "r", "i", "s", "t", "m", "a", "s">>,
       <<"m", "o", "t", "h", "e", "r", "s", " ", "d", "a", "y">>,
       <<"f", "a", "t", "h", "e", "r", "s", " ", "d", "a", "y">> >>

POWER_WORDS == Range(PowerWordsWritten)

\* list(POWER_WORDS): a set of strings is iterated in the order of the hashes
\* of its elements, which the interpreter salts with a seed chosen when it
\* starts.  The orders below are those of CPython 3.11 for the seeds 0, 1
\* and 2, as places in PowerWordsWritten.
HashSeeds == {0, 1, 2}

IterationOrder ==
    [seed \in HashSeeds |->
        CASE seed = 0 -> <<14, 18, 17, 2, 1, 16, 4, 3, 8, 5, 19, 15, 10, 11, 13, 7, 20, 6, 12, 9>>
          [] seed = 1 -> <<18, 9, 5, 11, 3, 17, 10, 15, 8, 2, 20, 12, 16, 14, 19, 7, 1, 6, 13, 4>>
          [] seed = 2 -> <<12, 17, 9, 5, 16, 11, 7, 8, 14, 19, 10, 2, 6, 18, 1, 3, 13, 20, 4, 15>>]

list_POWER_WORDS ==
    [i \in 1..Len(PowerWordsWritten) |-> PowerWordsWritten[IterationOrder[hash_seed][i]]]

(***************************************************************************)
(* optimizer/seo_scorer.py: score_listing and its four passes.  An         *)
(* f-string is the tuple of its text, with {} where a value is formatted,  *)
(* followed by the formatted values (the Turkish letters of the texts are  *)
(* written in ASCII).  A pass takes the SEOScore built so far and returns  *)
(* it with its sub-score set and its issues appended.                      *)
(***************************************************************************)
SEOIssue(category, severity, message, suggestion) ==
    [category |-> category, severity |-> severity,
     message |-> message, suggestion |-> suggestion]

\* SEOScore(product_id, title, platform) with the dataclass defaults.
SEOScore(product_id, title, platform) ==
    [product_id |-> product_id, title |-> title, platform |-> platform,
     total_score |-> 0, title_score |-> 0, tags_score |-> 0,
     description_score |-> 0, engagement_score |-> 0,
     issues |-> <<>>, grade |-> "F"]

\* Mutation of calculate_total only: a grade needs more than its lower bound.
CalculateTotalAboveBounds(score) ==
    LET total == score.title_score + score.tags_score
                    + score.description_score + score.engagement_score
    IN  [score EXCEPT
            !.total_score = total,
            !.grade = IF total > 85 THEN "A"
                      ELSE IF total > 70 THEN "B"
                      ELSE IF total > 55 THEN "C"
                      ELSE IF total > 40 THEN "D"
                      ELSE "F"]

\* SEOScore.calculate_total
calculate_total(score) ==
    LET total == score.title_score + score.tags_score
                    + score.description_score + score.engagement_score
    IN  [score EXCEPT
            !.total_score = total,
            !.grade = IF total >= 85 THEN "A"
                      ELSE IF total >= 70 THEN "B"
                      ELSE IF total >= 55 THEN "C"
                      ELSE IF total >= 40 THEN "D"
                      ELSE "F"]

\* The issue appended only when it is critical.
IssueIfCritical(condition, issue) ==
    IF condition /\ issue.severity = "critical" THEN <<issue>> ELSE <<>>

\* The issue a condition appends, as a list of no or one issue.
IssueIf(condition, issue) == IF condition THEN <<issue>> ELSE <<>>

\* any(pw in title_lower for pw in POWER_WORDS)
has_power(title_lower) == \E pw \in POWER_WORDS : Contains(title_lower, pw)

\* No title has a weak word.
HasWeakNever(title_lower) == FALSE

\* any(ww in title_lower.split() for ww in WEAK_WORDS)
has_weak(title_lower) == WEAK_WORDS \cap Range(split(title_lower)) # {}

score_title(score, product, platform) ==
    LET title == product.title
        words == split(title)
        rules == IF platform = "etsy" THEN ETSY_TITLE_RULES ELSE AMAZON_TITLE_RULES
        too_short == Len(title) < rules.min_length
        too_long == ~too_short /\ Len(title) > rules.max_length
        few_words == Len(words) < rules.min_words
        title_lower == lower(title)
        power == has_power(title_lower)
        weak == has_weak(title_lower)
        after_length == 25 - (IF too_short THEN 8 ELSE IF too_long THEN 5 ELSE 0)
        after_words == after_length - (IF few_words THEN 5 ELSE 0)
        after_caps == after_words - (IF isupper(title) THEN 5 ELSE 0)
        after_power == IF power THEN Min(after_caps + 3, 25) ELSE after_caps
        points == after_power - (IF weak THEN 3 ELSE 0)
    IN  [score EXCEPT
            !.title_score = Max(0, points),
            !.issues = @
                \o IssueIf(too_short, SEOIssue("title", "critical",
                      <<"Baslik cok kisa ({} karakter)", Len(title)>>,
                      <<"En az {} karakter olmali. Anahtar kelimeler ekleyin.",
                        rules.min_length>>))
                \o IssueIf(too_long, SEOIssue("title", "warning",
                      <<"Baslik cok uzun ({} karakter)", Len(title)>>,
                      <<"En fazla {} karakter onerilir.", rules.max_length>>))
                \o IssueIf(few_words, SEOIssue("title", "warning",
                      <<"Baslikta az kelime var ({})", Len(words)>>,
                      <<"En az {} kelime kullanin.", rules.min_words>>))
                \o IssueIf(isupper(title), SEOIssue("title", "warning",
                      <<"Baslik tamamen buyuk harfle yazilmis">>,
                      <<"Ilk harfler buyuk, geri kalan kucuk harf kullanin.">>))
                \o IssueIf(~power, SEOIssue("title", "info",
                      <<"Baslikta guclu anahtar kelime yok">>,
                      <<"Su kelimelerden eklemeyi deneyin: {}",
                        join(<<",", " ">>, Slice(list_POWER_WORDS, 5))>>))
                \o IssueIf(weak, SEOIssue("title", "info",
                      <<"Baslikta zayif/genel kelimeler var">>,
                      <<"\"nice\", \"good\", \"beautiful\" gibi genel kelimeleri spesifik kelimelerle degistirin.">>))]

score_tags(score, product, platform) ==
    LET tags == product.tags
        etsy == platform = "etsy"
        rules == ETSY_TAG_RULES
        too_few == etsy /\ Len(tags) < rules.min_tags
        not_all == etsy /\ ~too_few /\ Len(tags) < rules.max_tags
        multi_word == Cardinality({i \in 1..Len(tags) : Contains(tags[i], <<" ">>)})
        single_words == etsy /\ Len(tags) > 0 /\ 2 * multi_word < Max(Len(tags), 1)
        no_keywords == ~etsy /\ tags = <<>>
        repeated == Len(tags) # Cardinality({lower(tags[i]) : i \in 1..Len(tags)})
        points == 25 - (IF too_few THEN 10 ELSE IF not_all THEN 3 ELSE 0)
                     - (IF single_words THEN 5 ELSE 0)
                     - (IF no_keywords THEN 10 ELSE 0)
                     - (IF repeated THEN 5 ELSE 0)
    IN  [score EXCEPT
            !.tags_score = Max(0, points),
            !.issues = @
                \o IssueIf(too_few, SEOIssue("tags", "critical",
                      <<"Yetersiz tag sayisi ({}/13)", Len(tags)>>,
                      <<"Etsy'de 13 tag hakkiniz var, en az {} kullanin.",
                        rules.min_tags>>))
                \o IssueIf(not_all, SEOIssue("tags", "warning",
                      <<"Tag eksik ({}/13)", Len(tags)>>,
                      <<"Tum 13 tag hakkinizi kullanin.">>))
                \o IssueIf(single_words, SEOIssue("tags", "warning",
                      <<"Cogu tag tek kelime">>,
                      <<"Cok kelimeli tag'ler kullanin (orn: 'wooden phone stand' vs 'wooden').">>))
                \o IssueIf(no_keywords, SEOIssue("tags", "warning",
                      <<"Backend keyword yok">>,
                      <<"Amazon backend keywords bolumunu doldurun.">>))
                \o IssueIf(repeated, SEOIssue("tags", "warning",
                      <<"Tekrarlayan tag'ler var">>,
                      <<"Her tag benzersiz olmali.">>))]

\* The description scored by its length only, whatever its paragraphs.
ScoreDescriptionByLength(score, product, platform) ==
    LET desc == IF product.description = NoValue THEN <<>> ELSE product.description[1]
    IN  [score EXCEPT
            !.description_score = IF desc = <<>> THEN 0
                                  ELSE IF Len(desc) < 100 THEN 10
                                  ELSE IF Len(desc) < 300 THEN 17
                                  ELSE 25]

score_description(score, product, platform) ==
    LET desc == IF product.description = NoValue THEN <<>> ELSE product.description[1]
        missing == desc = <<>>
        very_short == ~missing /\ Len(desc) < 100
        short == ~missing /\ ~very_short /\ Len(desc) < 300
        one_paragraph == desc # <<>> /\ (\A i \in 1..Len(desc) : desc[i] # "\n") /\ Len(desc) > 200
        after_length == IF missing THEN 0
                        ELSE 25 - (IF very_short THEN 15 ELSE IF short THEN 8 ELSE 0)
        points == after_length - (IF one_paragraph THEN 3 ELSE 0)
    IN  [score EXCEPT
            !.description_score = Max(0, points),
            !.issues = @
                \o IssueIf(missing, SEOIssue("description", "critical",
                      <<"Urun aciklamasi yok">>,
                      <<"Detayli bir urun aciklamasi yazin (en az 200 karakter).">>))
                \o IssueIf(very_short, SEOIssue("description", "critical",
                      <<"Aciklama cok kisa ({} karakter)", Len(desc)>>,
                      <<"En az 200-500 karakter aciklama yazin. Urun ozelliklerini, malzemesini, boyutlarini ekleyin.">>))
                \o IssueIf(short, SEOIssue("description", "warning",
                      <<"Aciklama kisa ({} karakter)", Len(desc)>>,
                      <<"Daha detayli aciklama satisi artirir. Kullanim senaryolari, hediye onerileri ekleyin.">>))
                \o IssueIf(one_paragraph, SEOIssue("description", "info",
                      <<"Aciklama tek paragraf">>,
                      <<"Basliklar ve paragraflar ile bolumlere ayirin. Okunabilirligi artirir.">>))]

\* Mutation of Below only: q <= n.
BelowOrEqual(q, n) == q.num <= n * q.den

\* Mutation of Above only: q > n + 1.
AboveNext(q, n) == q.num > (n + 1) * q.den

\* q > n and q < n for a fraction q and an integer n.
Above(q, n) == q.num > n * q.den

Below(q, n) == q.num < n * q.den

\* f"{q:.1f}" for a fraction q >= 0: the whole part and the one decimal,
\* the exact value rounded to the nearest tenth, a tie to the even one.
Format1f(q) ==
    LET n == 10 * q.num
        floor == n \div q.den
        rest == n - floor * q.den
        tenths == IF 2 * rest > q.den \/ (2 * rest = q.den /\ floor % 2 = 1)
                  THEN floor + 1 ELSE floor
    IN  <<tenths \div 10, tenths % 10>>

score_engagement(score, product) ==
    LET rate == conversion_rate(product)
        no_views == ~(product.views > 0)
        tier == IF product.views > 500 /\ Above(rate, 2) THEN 25
                ELSE IF product.views > 200 /\ Above(rate, 1) THEN 20
                ELSE IF product.views > 100 THEN 15
                ELSE IF product.views > 0 THEN 10
                ELSE 5
        low_conversion == product.views > 200 /\ Below(rate, 1)
        unsold_favorite == product.favorites > 20 /\ product.total_sold < 3
        points == tier - (IF low_conversion THEN 5 ELSE 0)
    IN  [score EXCEPT
            !.engagement_score = Max(0, Min(25, points)),
            !.issues = @
                \o IssueIf(no_views, SEOIssue("engagement", "warning",
                      <<"Goruntulenme yok">>,
                      <<"SEO optimizasyonu yapin, sosyal medyada paylasin.">>))
                \o IssueIf(low_conversion, SEOIssue("engagement", "warning",
                      <<"Dusuk donusum ({:.1f}%)", Format1f(rate)>>,
                      <<"Cok goruntuleniyor ama satilmiyor. Fiyat, fotograf veya aciklamayi iyilestirin.">>))
                \o IssueIf(unsold_favorite, SEOIssue("engagement", "info",
                      <<"Yuksek favori ({}) ama dusuk satis ({})",
                        product.favorites, product.total_sold>>,
                      <<"Indirim veya kampanya ile favori ekleyenleri satisa donusturun.">>))]

\* score_listing(product, platform); platform is None when it is not given.
score_listing(product, platform) ==
    LET plat == IF platform # None THEN platform ELSE product.platform
        score == SEOScore(product.product_id, product.title, plat)
    IN  calculate_total(
            score_engagement(
                score_description(
                    score_tags(
                        score_title(score, product, plat),
                        product, plat),
                    product, plat),
                product))

(***************************************************************************)
(* Inputs of score_listing.  A title is a list of words joined by single   *)
(* spaces: some chosen words, then filler words "x", the last of which is  *)
(* stretched to give the title its length; the lengths are those around    *)
(* the limits of the rule tables.                                          *)
(***************************************************************************)
MaxFillers == 9
MaxTags == 14

Repeat(c, n) == [i \in 1..n |-> c]

Gift == <<"G", "i", "f", "t">>

Gifts == <<"g", "i", "f", "t", "s">>

Nice == <<"n", "i", "c", "e">>

Nicely == <<"n", "i", "c", "e", "l", "y">>

\* The chosen words: none, a power word, a weak word, both, a power word
\* inside a longer word next to a weak word inside a longer word, and the
\* two words of a power word.
ChosenWords ==
    { <<>>, <<Gift>>, <<Nice>>, <<Gift, Nice>>, <<Gifts, Nicely>>,
      <<<<"m", "o", "t", "h", "e", "r", "s">>, <<"d", "a", "y">>>> }

TitleLengths ==
    UNION {{r.min_length - 1, r.min_length, r.max_length, r.max_length + 1} :
              r \in {ETSY_TITLE_RULES, AMAZON_TITLE_RULES}} \cup {90}

\* The title of the chosen words followed by k fillers, of length len when
\* k > 0.
TitleOf(chosen, k, len) ==
    LET head == chosen \o [i \in 1..(k - 1) |-> <<"x">>]
        room == len - Len(join(<<" ">>, head)) - (IF head = <<>> THEN 0 ELSE 1)
    IN  IF k = 0 THEN join(<<" ">>, chosen)
        ELSE join(<<" ">>, Append(head, Repeat("x", room)))

\* Is there room for k fillers in a title of length len?
Fits(chosen, k, len) ==
    k = 0 \/ len - Len(join(<<" ">>, chosen \o [i \in 1..(k - 1) |-> <<"x">>]))
                 - (IF chosen = <<>> /\ k = 1 THEN 0 ELSE 1) >= 1

TitlesOfLength(lens) ==
    LET fitting == {TitleOf(ckl[1], ckl[2], ckl[3]) :
                       ckl \in {x \in ChosenWords \X (0..MaxFillers) \X lens :
                                   Fits(x[1], x[2], x[3])}}
    IN  fitting \cup {upper(t) : t \in fitting}

Titles == TitlesOfLength(TitleLengths)

\* Tag lists of n tags, the first m of two words and the others of one; with
\* again = "same" the last tag repeats the first, with again = "case" it is
\* the first in upper case.
Tag(i, two_words) ==
    IF two_words THEN <<"t", " ", LowercaseLetters[i]>> ELSE <<"t", LowercaseLetters[i]>>

TagList(n, m, again) ==
    [i \in 1..n |->
        IF i = n /\ n > 1 /\ again = "same" THEN Tag(1, 1 <= m)
        ELSE IF i = n /\ n > 1 /\ again = "case" THEN upper(Tag(1, 1 <= m))
        ELSE Tag(i, i <= m)]

TagLists ==
    {TagList(nm[1], nm[2], again) :
        nm \in {x \in (0..MaxTags) \X (0..MaxTags) : x[2] <= x[1]},
        again \in {"no", "same", "case"}}

\* A description of len characters, with a line break in the middle or not.
Text(len, line_break) ==
    [i \in 1..len |-> IF line_break /\ i = (len \div 2) + 1 THEN "\n" ELSE "d"]

Descriptions ==
    {NoValue, Some(<<>>)} \cup
    {Some(Text(len, b)) : len \in {1, 99, 100, 200, 201, 299, 300, 400}, b \in BOOLEAN}

\* views, favorites and total_sold around the limits of _score_engagement.
Engagements ==
    [views : {0, 1, 100, 101, 200, 201, 500, 501, 600},
     total_sold : {0, 2, 3, 5, 6, 10, 11, 12, 18},
     favorites : {0, 20, 21}]

\* A product of a platform with a title, tags, a description and an
\* engagement.
Listing(pl, title, tags, description, e) ==
    [DefaultProduct EXCEPT !.platform = pl, !.title = title, !.tags = tags,
                           !.description = description, !.views = e.views,
                           !.favorites = e.favorites, !.total_sold = e.total_sold]

GoodTitle == TitleOf(<<Gift>>, 8, 90)

GoodTags == TagList(13, 13, "no")

GoodDescription == Some(Text(400, TRUE))

GoodEngagement == [views |-> 600, total_sold |-> 18, favorites |-> 0]

\* One part of the listing varies over all its values, the others are good.
\* The titles and the tag lists are those of Etsy products, which are scored
\* by the rules of either platform when the call names it.
OnePartVaried ==
    {Listing("etsy", t, GoodTags, GoodDescription, GoodEngagement) : t \in Titles}
    \cup {Listing("etsy", GoodTitle, tg, GoodDescription, GoodEngagement) :
        tg \in TagLists}
    \cup {Listing(pl, GoodTitle, GoodTags, d, GoodEngagement) :
        pl \in Platforms, d \in Descriptions}
    \cup {Listing(pl, GoodTitle, GoodTags, GoodDescription, e) :
        pl \in Platforms, e \in Engagements}

\* Listings with a title of 90 characters, 13 tags of two words each, with
\* and without a tag that repeats another in upper case, a description of
\* 400 characters with a line break, 600 views and 18 sales.
StrongListings ==
    {Listing(pl, t, tg, GoodDescription, GoodEngagement) :
        pl \in Platforms, t \in TitlesOfLength({90}),
        tg \in {GoodTags, TagList(13, 13, "case")}}

\* All parts vary together over a few values each.
AllPartsVaried ==
    {Listing(pl, t, tg, d, e) :
        pl \in Platforms,
        t \in {<<>>, upper(Nice), GoodTitle, TitleOf(<<>>, 5, 40)},
        tg \in {<<>>, GoodTags, TagList(12, 5, "same")},
        d \in {NoValue, GoodDescription, Some(Text(50, FALSE)), Some(Text(250, FALSE))},
        e \in {[views |-> 0, total_sold |-> 0, favorites |-> 0],
               [views |-> 50, total_sold |-> 0, favorites |-> 30],
               [views |-> 150, total_sold |-> 1, favorites |-> 0],
               [views |-> 300, total_sold |-> 2, favorites |-> 0],
               GoodEngagement}}

InitSeo ==
    /\ orders = <<>>
    /\ today = 0
    /\ products \in {<<p>> : p \in OnePartVaried \cup StrongListings \cup AllPartsVaried}
    /\ hash_seed = 0
    /\ NoResults

\* A call score_listing(products[i], platform), or score_listing(products[i])
\* when platform is None.
ScoreListing ==
    \E i \in 1..Len(products), platform \in Platforms \cup {None} :
        /\ seo_score' = [called |-> TRUE, index |-> i, platform |-> platform,
                         ret |-> score_listing(products[i], platform)]
        /\ UNCHANGED <<orders, today, period_metrics, top_sellers,
                       country_breakdown, daily_revenue, store_summary,
                       revenue_change, products, hash_seed, derived,
                       optimization>>

NextSeo == ScoreListing

SpecSeo == InitSeo /\ [][NextSeo]_vars

(***************************************************************************)
(* Runs of the program.  Each run of the interpreter draws its hash seed;  *)
(* the products are read again from the same files, and the score of the   *)
(* last call stays with whoever read it.                                   *)
(***************************************************************************)
InitRuns ==
    /\ orders = <<>>
    /\ today = 0
    /\ products \in {<<Listing(pl, t, tg, d, GoodEngagement)>> :
                        pl \in Platforms,
                        t \in {<<>>, Nice, GoodTitle, TitleOf(<<>>, 8, 90)},
                        tg \in {<<>>, GoodTags},
                        d \in {NoValue, GoodDescription}}
    /\ hash_seed \in HashSeeds
    /\ NoResults

\* The program is started again.
Restart ==
    /\ hash_seed' \in HashSeeds
    /\ UNCHANGED <<orders, today, period_metrics, top_sellers,
                   country_breakdown, daily_revenue, store_summary,
                   revenue_change, products, derived, seo_score,
                   optimization>>

NextRuns ==
    \/ ScoreListing
    \/ Restart

SpecRuns == InitRuns /\ [][NextRuns]_vars

(***************************************************************************)
(* The functions called one after another in one program, and the program  *)
(* started again: the calls of calculate_period_metrics, get_top_sellers,  *)
(* get_country_breakdown, get_daily_revenue and score_listing in any       *)
(* order on the same orders and products.                                  *)
(***************************************************************************)

NoEngagement == [views |-> 0, total_sold |-> 0, favorites |-> 0]

\* Two orders on consecutive days, the later one today.
CallOrders ==
    [i \in 1..2 |->
        WithFinancials([DefaultOrder EXCEPT
                            !.order_date = [date |-> MaxDay - 2 + i, time |-> 1],
                            !.buyer_name = "ann", !.buyer_country = "US"],
                       CHOOSE f \in Financials : f.items # <<>>)]

\* A product whose title has no power word, and one whose title has one.
CallProducts ==
    << Listing("etsy", Nice, <<>>, NoValue, NoEngagement),
       Listing("amazon", Gift, <<>>, NoValue, NoEngagement) >>

InitCalls ==
    /\ orders = CallOrders
    /\ today = MaxDay
    /\ products = CallProducts
    /\ hash_seed = 0
    /\ NoResults

NextCalls ==
    \/ CalculatePeriodMetrics
    \/ GetTopSellers
    \/ GetCountryBreakdown
    \/ GetDailyRevenue
    \/ ScoreListing
    \/ Restart

SpecCalls == InitCalls /\ [][NextCalls]_vars

(***************************************************************************)
(* get_daily_revenue and calculate_period_metrics called on the same       *)
(* orders on the same day.                                                 *)
(***************************************************************************)
\* The orders of get_daily_revenue, all at the start of their day.
InitDailyAndPeriod ==
    /\ orders \in SeqsUpTo({o \in RevenueOrders : o.order_date.time = 0}, MaxOrders)
    /\ today \in Days
    /\ NoResults
    /\ NoProducts

NextDailyAndPeriod ==
    \/ GetDailyRevenue
    \/ CalculatePeriodMetrics

SpecDailyAndPeriod == InitDailyAndPeriod /\ [][NextDailyAndPeriod]_vars

(***************************************************************************)
(* optimizer/listing_optimizer.py: optimize_listing and the functions it   *)
(* calls.  The keywords and the title are strings of characters; the tips  *)
(* and the description template are texts with their fields, their         *)
(* Turkish letters written in ASCII and their pictographs left out.        *)
(***************************************************************************)
\* The keywords of every Etsy category, in the order they are written.
ETSY_CATEGORY_KEYWORDS ==
    << [key |-> <<"j", "e", "w", "e", "l", "r", "y">>,
        value |->
          << <<"h", "a", "n", "d", "m", "a", "d", "e", " ", "j", "e", "w", "e", "l", "r", "y">>,
             <<"m", "i", "n", "i", "m", "a", "l", "i", "s", "t", " ", "j", "e", "w", "e", "l", "r", "y">>,
             <<"g", "o", "l", "d", " ", "j", "e", "w", "e", "l", "r", "y">>,
             <<"s", "i", "l", "v", "e", "r", " ", "j", "e", "w", "e", "l", "r", "y">>,
             <<"c", "u", "s", "t", "o", "m", " ", "j", "e", "w", "e", "l", "r", "y">>,
             <<"p", "e", "r", "s", "o", "n", "a", "l", "i", "z", "e", "d", " ", "j", "e", "w", "e", "l", "r", "y">>,
             <<"d", "a", "i", "n", "t", "y", " ", "j", "e", "w", "e", "l", "r", "y">>,
             <<"b", "o", "h", "o", " ", "j", "e", "w", "e", "l", "r", "y">>,
             <<"s", "t", "a", "t", "e", "m", "e", "n", "t", " ", "j", "e", "w", "e", "l", "r", "y">>,
             <<"g", "i", "f", "t", " ", "f", "o", "r", " ", "h", "e", "r">>,
             <<"b", "r", "i", "d", "e", "s", "m", "a", "i", "d", " ", "g", "i", "f", "t">>,
             <<"w", "e", "d", "d", "i", "n", "g", " ", "j", "e", "w", "e", "l", "r", "y">>,
             <<"b", "i", "r", "t", "h", "s", "t", "o", "n", "e", " ", "j", "e", "w", "e", "l", "r", "y">>,
             <<"n", "a", "m", "e", " ", "n", "e", "c", "k", "l", "a", "c", "e">>,
             <<"i", "n", "i", "t", "i", "a", "l", " ", "n", "e", "c", "k", "l", "a", "c", "e">> >>],
       [key |-> <<"h", "o", "m", "e">>,
        value |->
          << <<"h", "o", "m", "e", " ", "d", "e", "c", "o", "r">>,
             <<"w", "a", "l", "l", " ", "a", "r", "t">>,
             <<"w", "a", "l", "l", " ", "h", "a", "n", "g", "i", "n", "g">>,
             <<"f", "a", "r", "m", "h", "o", "u", "s", "e", " ", "d", "e", "c", "o", "r">>,
             <<"r", "u", "s", "t", "i", "c", " ", "d", "e", "c", "o", "r">>,
             <<"m", "o", "d", "e", "r", "n", " ", "d", "e", "c", "o", "r">>,
             <<"m", "i", "n", "i", "m", "a", "l", "i", "s", "t", " ", "h", "o", "m", "e">>,
             <<"b", "o", "h", "o", " ", "d", "e", "c", "o", "r">>,
             <<"h", "o", "u", "s", "e", "w", "a", "r", "m", "i", "n", "g", " ", "g", "i", "f", "t">>,
             <<"l", "i", "v", "i", "n", "g", " ", "r", "o", "o", "m", " ", "d", "e", "c", "o", "r">>,
             <<"b", "e", "d", "r", "o", "o", "m", " ", "d", "e", "c", "o", "r">>,
             <<"s", "h", "e", "l", "f", " ", "d", "e", "c", "o", "r">>,
             <<"t", "a", "b", "l", "e", " ", "d", "e", "c", "o", "r">>,
             <<"h", "a", "n", "d", "m", "a", "d", "e", " ", "d", "e", "c", "o", "r">>,
             <<"c", "u", "s", "t", "o", "m", " ", "s", "i", "g", "n">> >>],
       [key |-> <<"c", "l", "o", "t", "h", "i", "n", "g">>,
        value |->
          << <<"h", "a", "n", "d", "m", "a", "d", "e", " ", "c", "l", "o", "t", "h", "i", "n", "g">>,
             <<"c", "u", "s", "t", "o", "m", " ", "c", "l", "o", "t", "h", "i", "n", "g">>,
             <<"v", "i", "n", "t", "a", "g", "e", " ", "s", "t", "y", "l", "e">>,
             <<"b", "o", "h", "o", " ", "c", "l", "o", "t", "h", "i", "n", "g">>,
             <<"m", "i", "n", "i", "m", "a", "l", "i", "s", "t", " ", "f", "a", "s", "h", "i", "o", "n">>,
             <<"s", "u", "s", "t", "a", "i", "n", "a", "b", "l", "e", " ", "f", "a", "s", "h", "i", "o", "n">>,
             <<"o", "r", "g", "a", "n", "i", "c", " ", "c", "o", "t", "t", "o", "n">>,
             <<"l", "i", "n", "e", "n", " ", "c", "l", "o", "t", "h", "i", "n", "g">>,
             <<"p", "l", "u", "s", " ", "s", "i", "z", "e">>,
             <<"u", "n", "i", "s", "e", "x">>,
             <<"l", "o", "u", "n", "g", "e", "w", "e", "a", "r">>,
             <<"a", "c", "t", "i", "v", "e", "w", "e", "a", "r">>,
             <<"s", "t", "r", "e", "e", "t", "w", "e", "a", "r">>,
             <<"c", "a", "s", "u", "a", "l", " ", "w", "e", "a", "r">> >>],
       [key |-> <<"a", "r", "t">>,
        value |->
          << <<"w", "a", "l", "l", " ", "a", "r", "t">>,
             <<"d", "i", "g", "i", "t", "a", "l", " ", "d", "o", "w", "n", "l", "o", "a", "d">>,
             <<"p", "r", "i", "n", "t", "a", "b", "l", "e", " ", "a", "r", "t">>,
             <<"c", "u", "s", "t", "o", "m", " ", "p", "o", "r", "t", "r", "a", "i", "t">>,
             <<"p", "e", "t", " ", "p", "o", "r", "t", "r", "a", "i", "t">>,
             <<"f", "a", "m", "i", "l", "y", " ", "p", "o", "r", "t", "r", "a", "i", "t">>,
             <<"w", "a", "t", "e", "r", "c", "o", "l", "o", "r", " ", "a", "r", "t">>,
             <<"o", "i", "l", " ", "p", "a", "i", "n", "t", "i", "n", "g">>,
             <<"a", "b", "s", "t", "r", "a", "c", "t", " ", "a", "r", "t">>,
             <<"m", "o", "d", "e", "r", "n", " ", "a", "r", "t">>,
             <<"m", "i", "n", "i", "m", "a", "l", "i", "s", "t", " ", "a", "r", "t">>,
             <<"g", "a", "l", "l", "e", "r", "y", " ", "w", "a", "l", "l">>,
             <<"a", "r", "t", " ", "p", "r", "i", "n", "t">>,
             <<"p", "o", "s", "t", "e", "r">>,
             <<"i", "l", "l", "u", "s", "t", "r", "a", "t", "i", "o", "n">> >>],
       [key |-> <<"c", "r", "a", "f", "t">>,
        value |->
          << <<"c", "r", "a", "f", "t", " ", "s", "u", "p", "p", "l", "i", "e", "s">>,
             <<"D", "I", "Y", " ", "k", "i", "t">>,
             <<"s", "e", "w", "i", "n", "g", " ", "p", "a", "t", "t", "e", "r", "n">>,
             <<"k", "n", "i", "t", "t", "i", "n", "g", " ", "p", "a", "t", "t", "e", "r", "n">>,
             <<"c", "r", "o", "c", "h", "e", "t", " ", "p", "a", "t", "t", "e", "r", "n">>,
             <<"e", "m", "b", "r", "o", "i", "d", "e", "r", "y", " ", "k", "i", "t">>,
             <<"b", "e", "a", "d", "i", "n", "g", " ", "s", "u", "p", "p", "l", "i", "e", "s">>,
             <<"j", "e", "w", "e", "l", "r", "y", " ", "m", "a", "k", "i", "n", "g">>,
             <<"s", "c", "r", "a", "p", "b", "o", "o", "k", "i", "n", "g">>,
             <<"s", "t", "i", "c", "k", "e", "r">>,
             <<"s", "t", "a", "m", "p">> >>],
       [key |-> <<"w", "e", "d", "d", "i", "n", "g">>,
        value |->
          << <<"w", "e", "d", "d", "i", "n", "g", " ", "g", "i", "f", "t">>,
             <<"b", "r", "i", "d", "a", "l", " ", "s", "h", "o", "w", "e", "r">>,
             <<"b", "r", "i", "d", "e", "s", "m", "a", "i", "d", " ", "g", "i", "f", "t">>,
             <<"g", "r", "o", "o", "m", "s", "m", "e", "n", " ", "g", "i", "f", "t">>,
             <<"w", "e", "d", "d", "i", "n", "g", " ", "d", "e", "c", "o", "r">>,
             <<"w", "e", "d", "d", "i", "n", "g", " ", "i", "n", "v", "i", "t", "a", "t", "i", "o", "n">>,
             <<"s", "a", "v", "e", " ", "t", "h", "e", " ", "d", "a", "t", "e">>,
             <<"w", "e", "d", "d", "i", "n", "g", " ", "f", "a", "v", "o", "r">>,
             <<"e", "n", "g", "a", "g", "e", "m", "e", "n", "t", " ", "g", "i", "f", "t">>,
             <<"a", "n", "n", "i", "v", "e", "r", "s", "a", "r", "y", " ", "g", "i", "f", "t">>,
             <<"w", "e", "d", "d", "i", "n", "g", " ", "s", "i", "g", "n">>,
             <<"c", "a", "k", "e", " ", "t", "o", "p", "p", "e", "r">>,
             <<"g", "u", "e", "s", "t", " ", "b", "o", "o", "k">> >>],
       [key |-> <<"b", "a", "b", "y">>,
        value |->
          << <<"b", "a", "b", "y", " ", "g", "i", "f", "t">>,
             <<"b", "a", "b", "y", " ", "s", "h", "o", "w", "e", "r">>,
             <<"n", "u", "r", "s", "e", "r", "y", " ", "d", "e", "c", "o", "r">>,
             <<"b", "a", "b", "y", " ", "b", "l", "a", "n", "k", "e", "t">>,
             <<"b", "a", "b", "y", " ", "c", "l", "o", "t", "h", "e", "s">>,
             <<"p", "e", "r", "s", "o", "n", "a", "l", "i", "z", "e", "d", " ", "b", "a", "b", "y">>,
             <<"n", "e", "w", "b", "o", "r", "n", " ", "g", "i", "f", "t">>,
             <<"f", "i", "r", "s", "t", " ", "b", "i", "r", "t", "h", "d", "a", "y">>,
             <<"b", "a", "b", "y", " ", "m", "i", "l", "e", "s", "t", "o", "n", "e">>,
             <<"t", "o", "d", "d", "l", "e", "r", " ", "g", "i", "f", "t">> >>],
       [key |-> <<"d", "i", "g", "i", "t", "a", "l">>,
        value |->
          << <<"d", "i", "g", "i", "t", "a", "l", " ", "d", "o", "w", "n", "l", "o", "a", "d">>,
             <<"p", "r", "i", "n", "t", "a", "b", "l", "e">>,
             <<"i", "n", "s", "t", "a", "n", "t", " ", "d", "o", "w", "n", "l", "o", "a", "d">>,
             <<"P", "D", "F">>,
             <<"S", "V", "G", " ", "f", "i", "l", "e">>,
             <<"t", "e", "m", "p", "l", "a", "t", "e">>,
             <<"p", "l", "a", "n", "n", "e", "r">>,
             <<"w", "a", "l", "l", " ", "a", "r", "t", " ", "p", "r", "i", "n", "t">>,
             <<"i", "n", "v", "i", "t", "a", "t", "i", "o", "n", " ", "t", "e", "m", "p", "l", "a", "t", "e">>,
             <<"r", "e", "s", "u", "m", "e", " ", "t", "e", "m", "p", "l", "a", "t", "e">>,
             <<"s", "o", "c", "i", "a", "l", " ", "m", "e", "d", "i", "a", " ", "t", "e", "m", "p", "l", "a", "t", "e">> >>] >>

\* The keywords of every Amazon category, in the order they are written.
AMAZON_CATEGORY_KEYWORDS ==
    << [key |-> <<"k", "i", "t", "c", "h", "e", "n">>,
        value |->
          << <<"k", "i", "t", "c", "h", "e", "n", " ", "a", "c", "c", "e", "s", "s", "o", "r", "i", "e", "s">>,
             <<"c", "o", "o", "k", "i", "n", "g", " ", "u", "t", "e", "n", "s", "i", "l", "s">>,
             <<"B", "P", "A", " ", "f", "r", "e", "e">>,
             <<"d", "i", "s", "h", "w", "a", "s", "h", "e", "r", " ", "s", "a", "f", "e">>,
             <<"e", "c", "o", " ", "f", "r", "i", "e", "n", "d", "l", "y">>,
             <<"f", "o", "o", "d", " ", "g", "r", "a", "d", "e">>,
             <<"n", "o", "n", " ", "t", "o", "x", "i", "c">>,
             <<"s", "e", "t">>,
             <<"p", "a", "c", "k">>,
             <<"p", "r", "e", "m", "i", "u", "m", " ", "q", "u", "a", "l", "i", "t", "y">>,
             <<"d", "u", "r", "a", "b", "l", "e">>,
             <<"e", "a", "s", "y", " ", "t", "o", " ", "c", "l", "e", "a", "n">> >>],
       [key |-> <<"h", "o", "m", "e">>,
        value |->
          << <<"h", "o", "m", "e", " ", "d", "e", "c", "o", "r">>,
             <<"r", "o", "o", "m", " ", "d", "e", "c", "o", "r">>,
             <<"L", "E", "D">>,
             <<"U", "S", "B", " ", "c", "h", "a", "r", "g", "i", "n", "g">>,
             <<"p", "o", "r", "t", "a", "b", "l", "e">>,
             <<"c", "o", "m", "p", "a", "c", "t">>,
             <<"m", "o", "d", "e", "r", "n", " ", "d", "e", "s", "i", "g", "n">>,
             <<"e", "n", "e", "r", "g", "y", " ", "s", "a", "v", "i", "n", "g">>,
             <<"g", "i", "f", "t", " ", "i", "d", "e", "a">>,
             <<"p", "r", "e", "m", "i", "u", "m">>,
             <<"d", "u", "r", "a", "b", "l", "e">>,
             <<"e", "a", "s", "y", " ", "t", "o", " ", "u", "s", "e">> >>],
       [key |-> <<"f", "i", "t", "n", "e", "s", "s">>,
        value |->
          << <<"w", "o", "r", "k", "o", "u", "t">>,
             <<"e", "x", "e", "r", "c", "i", "s", "e">>,
             <<"y", "o", "g", "a">>,
             <<"g", "y", "m">>,
             <<"f", "i", "t", "n", "e", "s", "s">>,
             <<"n", "o", "n", " ", "s", "l", "i", "p">>,
             <<"e", "c", "o", " ", "f", "r", "i", "e", "n", "d", "l", "y">>,
             <<"p", "o", "r", "t", "a", "b", "l", "e">>,
             <<"l", "i", "g", "h", "t", "w", "e", "i", "g", "h", "t">>,
             <<"c", "a", "r", "r", "y", "i", "n", "g", " ", "s", "t", "r", "a", "p">>,
             <<"t", "h", "i", "c", "k">>,
             <<"c", "o", "m", "f", "o", "r", "t", "a", "b", "l", "e">>,
             <<"d", "u", "r", "a", "b", "l", "e">> >>],
       [key |-> <<"e", "l", "e", "c", "t", "r", "o", "n", "i", "c", "s">>,
        value |->
          << <<"f", "a", "s", "t", " ", "c", "h", "a", "r", "g", "i", "n", "g">>,
             <<"p", "o", "r", "t", "a", "b", "l", "e">>,
             <<"c", "o", "m", "p", "a", "c", "t">>,
             <<"h", "i", "g", "h", " ", "c", "a", "p", "a", "c", "i", "t", "y">>,
             <<"l", "i", "g", "h", "t", "w", "e", "i", "g", "h", "t">>,
             <<"U", "S", "B", "-", "C">>,
             <<"L", "E", "D", " ", "i", "n", "d", "i", "c", "a", "t", "o", "r">>,
             <<"c", "o", "m", "p", "a", "t", "i", "b", "l", "e">>,
             <<"t", "r", "a", "v", "e", "l">>,
             <<"b", "a", "c", "k", "u", "p">>,
             <<"p", "o", "w", "e", "r", " ", "b", "a", "n", "k">>,
             <<"w", "i", "r", "e", "l", "e", "s", "s">> >>],
       [key |-> <<"e", "c", "o">>,
        value |->
          << <<"e", "c", "o", " ", "f", "r", "i", "e", "n", "d", "l", "y">>,
             <<"s", "u", "s", "t", "a", "i", "n", "a", "b", "l", "e">>,
             <<"r", "e", "u", "s", "a", "b", "l", "e">>,
             <<"o", "r", "g", "a", "n", "i", "c">>,
             <<"b", "i", "o", "d", "e", "g", "r", "a", "d", "a", "b", "l", "e">>,
             <<"z", "e", "r", "o", " ", "w", "a", "s", "t", "e">>,
             <<"p", "l", "a", "s", "t", "i", "c", " ", "f", "r", "e", "e">>,
             <<"n", "a", "t", "u", "r", "a", "l">>,
             <<"b", "a", "m", "b", "o", "o">>,
             <<"c", "o", "t", "t", "o", "n">>,
             <<"r", "e", "c", "y", "c", "l", "a", "b", "l", "e">>,
             <<"g", "r", "e", "e", "n">> >>] >>

EtsyDescriptionLines ==
    << "{} ",
       "",
       "PERFECT GIFT - This {} makes a wonderful gift for birthdays, anniversaries, holidays, and special occasions.",
       "",
       "WHAT YOU GET:",
       "- 1x {}",
       "- [Boyut/Olcu bilgisi ekleyin]",
       "- [Malzeme bilgisi ekleyin]",
       "",
       "FEATURES:",
       "- Handmade with care and attention to detail",
       "- [Ozellik 1 ekleyin]",
       "- [Ozellik 2 ekleyin]",
       "- [Ozellik 3 ekleyin]",
       "",
       "DIMENSIONS:",
       "- [Genislik x Yukseklik x Derinlik]",
       "- [Agirlik]",
       "",
       "SHIPPING:",
       "- Processing time: [X] business days",
       "- Ships from: [Ulke]",
       "- Tracking number provided",
       "",
       "WHY CHOOSE US:",
       "- Handmade quality",
       "- Fast shipping",
       "- Excellent customer service",
       "- Satisfaction guaranteed",
       "",
       "Have questions? Send us a message, we'd love to help!",
       "",
       "Don't forget to save this to your favorites!" >>

AmazonDescriptionLines ==
    << "[{}]",
       "",
       "PRODUCT DESCRIPTION:",
       "{} - [Urun aciklamasi ekleyin]. Perfect for [kullanim alani].",
       "",
       "KEY FEATURES:",
       "[Ozellik 1]",
       "[Ozellik 2]",
       "[Ozellik 3]",
       "[Ozellik 4]",
       "[Ozellik 5]",
       "",
       "SPECIFICATIONS:",
       "- Material: [Malzeme]",
       "- Size: [Boyut]",
       "- Weight: [Agirlik]",
       "- Color: [Renk secenekleri]",
       "- Package Includes: 1x {}",
       "",
       "PERFECT FOR:",
       "Birthday gifts, holiday gifts, housewarming gifts",
       "Great for the whole family",
       "[Kullanim alani 1]",
       "[Kullanim alani 2]",
       "",
       "SATISFACTION GUARANTEE:",
       "We stand behind our products. If you're not 100% satisfied, contact us for a full refund.",
       "",
       "Note: [Onemli notlar]" >>

Home == <<"h", "o", "m", "e">>

GiftLower == <<"g", "i", "f", "t">>

Hediye == <<"h", "e", "d", "i", "y", "e">>

GiftIdea == <<"G", "i", "f", "t", " ", "I", "d", "e", "a">>

WallArtPrint == <<"W", "a", "l", "l", " ", "A", "r", "t", " ", "P", "r", "i", "n", "t">>

YogaMat == <<"y", "o", "g", "a", " ", "m", "a", "t", " ", "-", " ", "e", "c", "o", " ", "f", "r", "i", "e", "n", "d", "l", "y", ",", " ", "n", "o", "n", " ", "s", "l", "i", "p">>

GiftUpper == <<"G", "I", "F", "T", " ", "B", "O", "X">>

HomeDecorUpper == <<"H", "O", "M", "E", " ", "D", "E", "C", "O", "R">>

\* str.title(): a cased character is upper case after an uncased one and at
\* the start, lower case after a cased one.
title_case(s) ==
    [i \in 1..Len(s) |->
        IF i > 1 /\ s[i - 1] \in Uppercase \cup Lowercase
        THEN LowerChar(s[i]) ELSE UpperChar(s[i])]

\* OptimizationResult(product_id, original_title, platform) with the
\* dataclass defaults.
OptimizationResult(product_id, original_title, platform) ==
    [product_id |-> product_id, original_title |-> original_title,
     platform |-> platform, suggested_title |-> NoValue, suggested_tags |-> <<>>,
     suggested_description |-> NoValue, title_tips |-> <<>>,
     general_tips |-> <<>>, ai_powered |-> FALSE]

\* The keyword database of a platform.
keywords_db(platform) ==
    IF platform = "etsy" THEN ETSY_CATEGORY_KEYWORDS ELSE AMAZON_CATEGORY_KEYWORDS

\* The match score of one category: its keywords that are part of the title,
\* and 3 more when its name is.
match_score(entry, title_lower) ==
    Cardinality({k \in 1..Len(entry.value) : Contains(title_lower, entry.value[k])})
    + (IF Contains(title_lower, entry.key) THEN 3 ELSE 0)

\* _detect_category: the first category of the highest match score, "home"
\* when no category scores.
detect_category(title, platform) ==
    LET title_lower == lower(title)
        db == keywords_db(platform)
        scores == [i \in 1..Len(db) |-> match_score(db[i], title_lower)]
        best == CHOOSE i \in 1..Len(db) :
                    /\ \A j \in 1..Len(db) : scores[j] <= scores[i]
                    /\ \A j \in 1..(i - 1) : scores[j] < scores[i]
    IN  IF scores[best] > 0 THEN db[best].key ELSE Home

\* db.get(category, [])
get(db, category) ==
    IF \E i \in 1..Len(db) : db[i].key = category
    THEN db[CHOOSE i \in 1..Len(db) : db[i].key = category].value
    ELSE <<>>

\* [kw for kw in cat_keywords[:5] if kw.lower() not in title.lower()]
unused_keywords(cat_keywords, title) ==
    SelectSeq(Slice(cat_keywords, 5), LAMBDA kw : ~Contains(lower(title), lower(kw)))

\* The tip a condition appends, as a list of no or one tip.
TipIf(condition, tip) == IF condition THEN <<tip>> ELSE <<>>

\* _generate_title_suggestions: the suggested title and the tips.
generate_title_suggestions(product, platform) ==
    LET title == product.title
        words == split(title)
        category == detect_category(title, platform)
        unused == unused_keywords(get(keywords_db(platform), category), title)
        gift == Contains(lower(title), GiftLower)
        hediye == Contains(lower(title), Hediye)
        etsy_tips ==
            TipIf(Len(title) < 40, <<"Basligi uzatin - en az 60-80 karakter ideal">>)
            \o TipIf(~\E c \in {"-", "|", ","} : c \in Range(title),
                     <<"Ayirici kullanin: 'Urun Adi - Materyal - Kullanim - Hediye Fikri'">>)
            \o TipIf(isupper(title), <<"Baslik formati: Her Kelimenin Ilk Harfi Buyuk">>)
            \o TipIf(unused # <<>>,
                     <<"Su anahtar kelimeleri eklemeyi deneyin: {}",
                       join(<<",", " ">>, Slice(unused, 3))>>)
            \o TipIf(~gift /\ ~hediye,
                     <<"'Gift for Her/Him' veya 'Birthday Gift' gibi hediye kelimeleri ekleyin">>)
        etsy_parts ==
            <<title>>
            \o (IF unused # <<>> THEN <<title_case(unused[1])>> ELSE <<>>)
            \o (IF ~gift THEN <<GiftIdea>> ELSE <<>>)
        amazon_tips ==
            TipIf(Len(title) < 80, <<"Amazon basligi en az 80 karakter olmali">>)
            \o TipIf(Len(words) < 8, <<"Daha fazla anahtar kelime ekleyin">>)
            \o TipIf(unused # <<>>,
                     <<"Su kelimeleri eklemeyi deneyin: {}",
                       join(<<",", " ">>, Slice(unused, 3))>>)
        amazon_parts == <<title>> \o Slice(unused, 2)
    IN  IF platform = "etsy"
        THEN <<Slice(join(<<" ", "|", " ">>, etsy_parts), 200), etsy_tips>>
        ELSE <<Slice(join(<<" ", "-", " ">>, amazon_parts), 200), amazon_tips>>

\* The loop of _generate_tag_suggestions from the k-th keyword on: a keyword
\* that is no existing tag and has at most 20 characters is appended, and
\* then the loop ends when suggested and existing tags are 13 or more.
RECURSIVE SuggestFrom(_, _, _, _)
SuggestFrom(cat_keywords, k, suggested, existing_tags) ==
    IF k > Len(cat_keywords) THEN suggested
    ELSE LET kw == cat_keywords[k]
             appended == IF lower(kw) \notin existing_tags /\ Len(kw) <= 20
                         THEN Append(suggested, kw) ELSE suggested
         IN  IF Len(appended) + Cardinality(existing_tags) >= 13 THEN appended
             ELSE SuggestFrom(cat_keywords, k + 1, appended, existing_tags)

\* _generate_tag_suggestions
generate_tag_suggestions(product, platform) ==
    LET existing_tags == {lower(product.tags[i]) : i \in 1..Len(product.tags)}
        category == detect_category(product.title, platform)
        cat_keywords == get(keywords_db(platform), category)
    IN  SuggestFrom(cat_keywords, 1, <<>>, existing_tags)

\* _generate_description_template: the template of the platform with the
\* values of its three fields.
generate_description_template(product, platform) ==
    IF platform = "etsy"
    THEN <<EtsyDescriptionLines, product.title, lower(product.title), product.title>>
    ELSE <<AmazonDescriptionLines, upper(product.title), product.title, product.title>>

\* optimize_listing(product, platform); platform is None when it is not
\* given.  The price is in cents: 1000 is $10 and price % 1 is price % 100.
optimize_listing(product, platform) ==
    LET plat == IF platform # None THEN platform ELSE product.platform
        title_suggestions == generate_title_suggestions(product, plat)
        general_tips ==
            TipIf(product.price # 0 /\ product.price < 1000,
                  <<"Fiyat cok dusuk. $15+ fiyat marji daha iyi kar saglar.">>)
            \o TipIf(product.price # 0 /\ product.price % 100 = 0,
                     <<"Psikolojik fiyatlama kullanin: $25.00 yerine $24.99">>)
            \o TipIf(product.quantity <= 5 /\ product.quantity > 0,
                     <<"Stok azaliyor ({} adet). Yeniden siparis verin.",
                       product.quantity>>)
            \o TipIf(product.quantity = 0,
                     <<"STOK BITMIS! Acil stok ekleyin, listeden dusuyor.">>)
            \o TipIf(product.views > 200 /\ Below(conversion_rate(product), 1),
                     <<"Yuksek trafik ama dusuk satis -> Fotograflari ve fiyati gozden gecirin.">>)
            \o TipIf(product.favorites > 10 /\ product.total_sold = 0,
                     <<"Favorilere ekleniyor ama satilmiyor -> Indirim kampanyasi deneyin.">>)
            \o TipIf(product.views < 50,
                     <<"Dusuk goruntulenme -> SEO'yu iyilestirin, sosyal medyada paylasin.">>)
    IN  [OptimizationResult(product.product_id, product.title, plat) EXCEPT
            !.suggested_title = Some(title_suggestions[1]),
            !.suggested_tags = generate_tag_suggestions(product, plat),
            !.suggested_description = Some(generate_description_template(product, plat)),
            !.title_tips = title_suggestions[2],
            !.general_tips = general_tips]

(***************************************************************************)
(* Inputs of optimize_listing: titles of several categories, lists of up   *)
(* to MaxTags tags, with a tag repeated in another case and with a tag     *)
(* that is a keyword, and prices, stocks and engagements on both sides of  *)
(* the limits of the tips.                                                 *)
(***************************************************************************)
OptimizeTitles == {<<>>, WallArtPrint, YogaMat, GiftUpper}

OptimizeTagLists ==
    {TagList(n, 0, again) : n \in 0..MaxTags, again \in {"no", "case"}}
    \cup {<<HomeDecorUpper>> \o TagList(n, 0, "no") : n \in 0..(MaxTags - 1)}

OptimizeProducts ==
    {Listing(pl, t, tg, NoValue, NoEngagement) :
        pl \in Platforms, t \in OptimizeTitles, tg \in OptimizeTagLists}
    \cup {[Listing(pl, WallArtPrint, <<>>, NoValue, e) EXCEPT
              !.price = price, !.quantity = quantity] :
            pl \in Platforms, price \in {0, 500, 999, 2500}, quantity \in {0, 5, 6},
            e \in {NoEngagement, [views |-> 300, total_sold |-> 0, favorites |-> 11]}}

InitOptimize ==
    /\ orders = <<>>
    /\ today = 0
    /\ products \in {<<p>> : p \in OptimizeProducts}
    /\ hash_seed = 0
    /\ NoResults

\* A call optimize_listing(products[i], platform), or
\* optimize_listing(products[i]) when platform is None.
OptimizeListing ==
    \E i \in 1..Len(products), platform \in Platforms \cup {None} :
        /\ optimization' = [called |-> TRUE, index |-> i, platform |-> platform,
                            ret |-> optimize_listing(products[i], platform)]
        /\ UNCHANGED <<orders, today, period_metrics, top_sellers,
                       country_breakdown, daily_revenue, store_summary,
                       revenue_change, products, hash_seed, derived, seo_score>>

NextOptimize == OptimizeListing

SpecOptimize == InitOptimize /\ [][NextOptimize]_vars

(***************************************************************************)
(* Properties of calculate_period_metrics.                                 *)
(***************************************************************************)
\* The sum of v[i] over the indices i of the set I.
RECURSIVE SumOver(_, _)
SumOver(I, v) ==
    IF I = {} THEN 0
    ELSE LET i == CHOOSE j \in I : TRUE IN v[i] + SumOver(I \ {i}, v)

\* The positions of the orders whose calendar date lies in [lo, hi].
DatedWithin(lo, hi) ==
    {i \in 1..Len(orders) : lo <= orders[i].order_date.date /\ orders[i].order_date.date <= hi}

\* The non-empty buyer names of the orders dated within [lo, hi].
NamesWithin(lo, hi) ==
    {orders[i].buyer_name : i \in {j \in DatedWithin(lo, hi) : orders[j].buyer_name \notin {None, ""}}}

\* C1: calculate_period_metrics counts exactly the orders whose calendar date d
\* satisfies start_date <= d <= end_date, whatever their time of day:
\* total_orders is their number and every sum is taken over exactly them.
C1_PeriodCountsExactlyTheWindow ==
    period_metrics.called =>
        LET I == DatedWithin(period_metrics.start_date, period_metrics.end_date)
            m == period_metrics.ret
        IN  /\ m.total_orders = Cardinality(I)
            /\ m.gross_revenue = SumOver(I, [i \in I |-> orders[i].subtotal + orders[i].shipping_cost])
            /\ m.total_fees = SumOver(I, [i \in I |-> total_fees(orders[i])])
            /\ m.net_revenue = SumOver(I, [i \in I |-> net_revenue(orders[i])])
            /\ m.shipping_collected = SumOver(I, [i \in I |-> orders[i].shipping_cost])
            /\ m.total_items_sold = SumOver(I, [i \in I |-> item_count(orders[i])])

\* C1 witness: a call over start < end that counts an order dated on the end
\* date with a non-zero time of day and leaves out an order dated outside.
C1_Witness ==
    /\ period_metrics.called
    /\ period_metrics.start_date < period_metrics.end_date
    /\ period_metrics.ret.total_orders = 1
    /\ period_metrics.ret.gross_revenue > 0
    /\ \E i, j \in 1..Len(orders) :
        /\ orders[i].order_date = [date |-> period_metrics.end_date, time |-> 1]
        /\ orders[j].order_date.date < period_metrics.start_date
        /\ gross_revenue(orders[j]) > 0

AdditiveFields(a, b, whole) ==
    /\ a.total_orders + b.total_orders = whole.total_orders
    /\ a.total_items_sold + b.total_items_sold = whole.total_items_sold
    /\ a.gross_revenue + b.gross_revenue = whole.gross_revenue
    /\ a.total_fees + b.total_fees = whole.total_fees
    /\ a.net_revenue + b.net_revenue = whole.net_revenue
    /\ a.shipping_collected + b.shipping_collected = whole.shipping_collected

C3_UniqueBuyersAdditive ==
    period_metrics.called =>
        \A end \in period_metrics.start_date..(period_metrics.end_date - 1) :
            calculate_period_metrics(orders, period_metrics.start_date, end).unique_buyers
            + calculate_period_metrics(orders, end + 1, period_metrics.end_date).unique_buyers
            = period_metrics.ret.unique_buyers

\* C3 amended: the two unique buyer counts add up to the unique buyer count of
\* [start, end+N] plus the number of buyer names that have an order in both
\* windows; so the count of the whole window never exceeds the sum.
C3_UniqueBuyersSubadditive ==
    period_metrics.called =>
        \A end \in period_metrics.start_date..(period_metrics.end_date - 1) :
            LET a == calculate_period_metrics(orders, period_metrics.start_date, end)
                b == calculate_period_metrics(orders, end + 1, period_metrics.end_date)
                both == NamesWithin(period_metrics.start_date, end)
                            \cap NamesWithin(end + 1, period_metrics.end_date)
            IN  /\ a.unique_buyers + b.unique_buyers
                     = period_metrics.ret.unique_buyers + Cardinality(both)
                /\ period_metrics.ret.unique_buyers <= a.unique_buyers + b.unique_buyers

\* C3 witness: a buyer name with an order in each window, counted once in the
\* whole window.
C3_Witness ==
    /\ period_metrics.called
    /\ period_metrics.ret.unique_buyers = 1
    /\ \E end \in period_metrics.start_date..(period_metrics.end_date - 1) :
        /\ calculate_period_metrics(orders, period_metrics.start_date, end).unique_buyers = 1
        /\ calculate_period_metrics(orders, end + 1, period_metrics.end_date).unique_buyers = 1

(***************************************************************************)
(* Properties of get_top_sellers.                                          *)
(***************************************************************************)
\* The places <<k, i>> of the line items: item i of order k.
ItemPlaces ==
    UNION {{<<k, i>> : i \in 1..Len(orders[k].items)} : k \in 1..Len(orders)}

ItemAt(p) == orders[p[1]].items[p[2]]

\* Iteration order: orders in list order, items in order within each order.
Precedes(p, q) == p[1] < q[1] \/ (p[1] = q[1] /\ p[2] < q[2])

PlacesOf(pid) == {p \in ItemPlaces : ItemAt(p).product_id = pid}

FirstPlaceOf(pid) ==
    CHOOSE p \in PlacesOf(pid) : \A q \in PlacesOf(pid) : q = p \/ Precedes(p, q)

LastPlaceOf(pid) ==
    CHOOSE p \in PlacesOf(pid) : \A q \in PlacesOf(pid) : q = p \/ Precedes(q, p)

SoldProductIds == {ItemAt(p).product_id : p \in ItemPlaces}

\* C4: get_top_sellers returns at most one entry per product_id found in the
\* items; an entry's units_sold is the sum of quantity and its revenue the sum
\* of quantity x unit_price over all items with its product_id, and its title
\* is the product_title of the last such item in iteration order.
C4_TopSellersAggregateByProduct ==
    top_sellers.called =>
        LET r == top_sellers.ret
        IN  /\ \A i, j \in 1..Len(r) : i # j => r[i].product_id # r[j].product_id
            /\ \A i \in 1..Len(r) :
                LET P == PlacesOf(r[i].product_id)
                IN  /\ r[i].product_id \in SoldProductIds
                    /\ r[i].units_sold = SumOver(P, [p \in P |-> ItemAt(p).quantity])
                    /\ r[i].revenue =
                        SumOver(P, [p \in P |-> ItemAt(p).quantity * ItemAt(p).unit_price])
                    /\ r[i].title = ItemAt(LastPlaceOf(r[i].product_id)).product_title

\* C4 witness: an entry aggregated from items of two orders whose first and
\* last recorded titles differ.
C4_Witness ==
    /\ top_sellers.called
    /\ \E i \in 1..Len(top_sellers.ret) :
        LET pid == top_sellers.ret[i].product_id
        IN  /\ FirstPlaceOf(pid)[1] # LastPlaceOf(pid)[1]
            /\ ItemAt(FirstPlaceOf(pid)).product_title # top_sellers.ret[i].title
            /\ top_sellers.ret[i].units_sold = 3

\* C5: the returned list is in non-increasing order of revenue, and two
\* products with equal revenue appear in the order in which their product_id
\* was first met during aggregation.
C5_TopSellersStableDescending ==
    top_sellers.called =>
        LET r == top_sellers.ret
        IN  \A i, j \in 1..Len(r) :
                i < j =>
                    /\ r[i].revenue >= r[j].revenue
                    /\ r[i].revenue = r[j].revenue =>
                        Precedes(FirstPlaceOf(r[i].product_id), FirstPlaceOf(r[j].product_id))

\* C5 witness: A and B with equal revenue in aggregation order (p2 met before
\* p1) and C with less revenue last, although C was met before B.
C5_Witness ==
    /\ top_sellers.called
    /\ Len(top_sellers.ret) = 3
    /\ top_sellers.ret[1].product_id = "p2"
    /\ top_sellers.ret[2].product_id = "p1"
    /\ top_sellers.ret[1].revenue = top_sellers.ret[2].revenue
    /\ top_sellers.ret[2].revenue > top_sellers.ret[3].revenue
    /\ Precedes(FirstPlaceOf("p3"), FirstPlaceOf("p1"))

\* C6: for limit >= 0 the call returns exactly min(limit, number of distinct
\* product_ids) entries, the first entries of the ranking obtained with an
\* unbounded limit; with fewer products than limit all are returned.
C6_TopSellersLimit ==
    (top_sellers.called /\ top_sellers.limit >= 0) =>
        LET r == top_sellers.ret
            n == Cardinality(SoldProductIds)
            full == get_top_sellers(orders, Cardinality(ItemPlaces))
        IN  /\ Len(r) = IF top_sellers.limit < n THEN top_sellers.limit ELSE n
            /\ Len(full) = n
            /\ r = SubSeq(full, 1, Len(r))

\* C6 witness: three products and limit 2: the first two are returned.
C6_Witness ==
    /\ top_sellers.called
    /\ top_sellers.limit = 2
    /\ Cardinality(SoldProductIds) = 3
    /\ Len(top_sellers.ret) = 2

(***************************************************************************)
(* Properties of get_country_breakdown.                                    *)
(***************************************************************************)
\* The positions of the orders that carry the country c.
OrdersFrom(c) == {i \in 1..Len(orders) : orders[i].buyer_country = c}

NonEmptyCountries ==
    {orders[i].buyer_country : i \in 1..Len(orders)} \ {None, ""}

FirstOrderFrom(c) == CHOOSE i \in OrdersFrom(c) : \A j \in OrdersFrom(c) : i <= j

\* C7: get_country_breakdown maps each non-empty buyer_country to the number
\* of orders carrying it; orders whose buyer_country is None or empty appear
\* under no key, so the counts sum to the number of orders with a country.
C7_CountryBreakdownCounts ==
    country_breakdown.called =>
        LET r == country_breakdown.ret
            K == 1..Len(r)
        IN  /\ \A i, j \in K : i # j => r[i].key # r[j].key
            /\ {r[i].key : i \in K} = NonEmptyCountries
            /\ \A i \in K : r[i].value = Cardinality(OrdersFrom(r[i].key))
            /\ SumOver(K, [i \in K |-> r[i].value])
                 = Cardinality({i \in 1..Len(orders) :
                                    orders[i].buyer_country \notin {None, ""}})

\* C7 witness: orders with country None and "" next to orders with a country:
\* the counts sum to less than the number of orders.
C7_Witness ==
    /\ country_breakdown.called
    /\ OrdersFrom(None) # {}
    /\ OrdersFrom("") # {}
    /\ Len(country_breakdown.ret) = 1
    /\ country_breakdown.ret[1].value = 2
    /\ Len(orders) = 4

\* C8: the entries are ordered by non-increasing count, and countries with
\* equal counts in the order in which each was first met in the order list.
C8_CountryBreakdownOrder ==
    country_breakdown.called =>
        LET r == country_breakdown.ret
        IN  \A i, j \in 1..Len(r) :
                i < j =>
                    /\ r[i].value >= r[j].value
                    /\ r[i].value = r[j].value =>
                        FirstOrderFrom(r[i].key) < FirstOrderFrom(r[j].key)

\* C8 witness: the country met second has the most orders and comes first;
\* the two countries with one order each follow in the order they were met.
C8_Witness ==
    /\ country_breakdown.called
    /\ Len(country_breakdown.ret) = 3
    /\ country_breakdown.ret[1].value = 2
    /\ FirstOrderFrom(country_breakdown.ret[2].key) = 1
    /\ FirstOrderFrom(country_breakdown.ret[1].key) = 2
    /\ country_breakdown.ret[2].key = "US"
    /\ country_breakdown.ret[3].key = "DE"

(***************************************************************************)
(* Properties of get_daily_revenue.                                        *)
(***************************************************************************)
\* The positions of the orders dated on day d.
OrdersOn(d) == {i \in 1..Len(orders) : orders[i].order_date.date = d}

\* C9: for days >= 0, get_daily_revenue returns exactly days+1 keys, one for
\* every date of [today - days, today]; the value of a date is the sum of
\* gross_revenue of the orders dated that day (0 when there are none), and the
\* orders dated outside the window change neither the keys nor any value.
C9_DailyRevenueDense ==
    (daily_revenue.called /\ daily_revenue.days >= 0) =>
        LET r == daily_revenue.ret
            first == today - daily_revenue.days
            inside == SelectSeq(orders, LAMBDA o :
                        first <= o.order_date.date /\ o.order_date.date <= today)
        IN  /\ Len(r) = daily_revenue.days + 1
            /\ \A i \in 1..Len(r) : r[i].key = first + i - 1
            /\ \A i \in 1..Len(r) :
                LET I == OrdersOn(r[i].key)
                IN  r[i].value =
                        SumOver(I, [j \in I |-> orders[j].subtotal + orders[j].shipping_cost])
            /\ r = get_daily_revenue(inside, daily_revenue.days)
            /\ get_daily_revenue(<<>>, daily_revenue.days)
                 = [i \in 1..Len(r) |-> [key |-> r[i].key, value |-> 0]]

\* C9 witness: a window of two days with a day without orders, a day with
\* revenue from an order with a time of day, and an order outside the window.
C9_Witness ==
    /\ daily_revenue.called
    /\ daily_revenue.days = 1
    /\ Len(daily_revenue.ret) = 2
    /\ daily_revenue.ret[1].value = 0
    /\ daily_revenue.ret[2].value = 270
    /\ \E i, j \in 1..Len(orders) :
        /\ orders[i].order_date = [date |-> today, time |-> 1]
        /\ orders[j].order_date.date < today - 1

(***************************************************************************)
(* Properties of StoreSummary.revenue_change.                              *)
(***************************************************************************)
\* C10: revenue_change is None whenever previous_period.gross_revenue is 0 or
\* either period is missing; otherwise it is the number
\* (current gross - previous gross) / previous gross x 100, which is +25 for
\* previous 120 and current 150.
C10_RevenueChange ==
    revenue_change.called =>
        LET s == store_summary
            undefined == \/ s.previous_period = <<>>
                         \/ s.current_period = <<>>
                         \/ s.previous_period[1].gross_revenue = 0
        IN  /\ undefined => revenue_change.ret = <<>>
            /\ ~undefined =>
                LET curr == s.current_period[1].gross_revenue
                    prev == s.previous_period[1].gross_revenue
                IN  /\ Len(revenue_change.ret) = 1
                    /\ revenue_change.ret[1].den > 0
                    /\ revenue_change.ret[1].num * prev
                         = (curr - prev) * 100 * revenue_change.ret[1].den
                    /\ (prev = 120 /\ curr = 150) =>
                            revenue_change.ret[1] = [num |-> 25, den |-> 1]

\* C10 witness: a read with a previous period without revenue next to a
\* current period with revenue.
C10_Witness ==
    /\ revenue_change.called
    /\ store_summary.previous_period # <<>>
    /\ store_summary.current_period # <<>>
    /\ store_summary.previous_period[1].gross_revenue = 0
    /\ store_summary.current_period[1].gross_revenue = 150
    /\ revenue_change.ret = <<>>

(***************************************************************************)
(* Properties of build_store_summary.                                      *)
(***************************************************************************)
\* The number of calendar days of the window of a PeriodMetrics.
DaysCovered(m) ==
    IF m.period_end < m.period_start THEN 0 ELSE m.period_end - m.period_start + 1

Covers(m, d) == m.period_start <= d /\ d <= m.period_end

CurrentPeriod == store_summary.ret.current_period[1]

PreviousPeriod == store_summary.ret.previous_period[1]

\* The places in the order list of the orders of the platform of the call.
PlatformPlaces == {i \in 1..Len(orders) : orders[i].platform = store_summary.platform}

\* C11: in build_store_summary, for every period_days >= 1, the current
\* period is [today - period_days, today] and the previous period covers
\* the same number of calendar days as the current period.
C11_PreviousPeriodSameLength ==
    (store_summary.called /\ store_summary.period_days >= 1) =>
        /\ CurrentPeriod.period_start = today - store_summary.period_days
        /\ CurrentPeriod.period_end = today
        /\ DaysCovered(PreviousPeriod) = DaysCovered(CurrentPeriod)

\* C12: in build_store_summary, for every period_days >= 1, the previous
\* period ends exactly one day before the current period starts, no date is
\* in both windows, no order is counted in both periods, and every date from
\* the start of the previous period to today is in one of the two windows,
\* so that the two periods together count every order of the platform dated
\* from the start of the previous period to today exactly once.
C12_PeriodsAdjacentAndDisjoint ==
    (store_summary.called /\ store_summary.period_days >= 1) =>
        /\ PreviousPeriod.period_end = CurrentPeriod.period_start - 1
        /\ \A d \in 0..StoreToday :
              ~(Covers(PreviousPeriod, d) /\ Covers(CurrentPeriod, d))
        /\ \A d \in PreviousPeriod.period_start..today :
              Covers(PreviousPeriod, d) \/ Covers(CurrentPeriod, d)
        /\ \A i \in PlatformPlaces :
              ~(Covers(PreviousPeriod, DateOf(orders[i].order_date)) /\
                Covers(CurrentPeriod, DateOf(orders[i].order_date)))
        /\ CurrentPeriod.total_orders + PreviousPeriod.total_orders =
              Cardinality({i \in PlatformPlaces :
                  /\ PreviousPeriod.period_start <= DateOf(orders[i].order_date)
                  /\ DateOf(orders[i].order_date) <= today})

\* An order of the platform on the last day of the previous period and one
\* on the first day of the current period, each counted once.
C12_Witness ==
    /\ store_summary.called
    /\ store_summary.period_days >= 1
    /\ \E i, j \in PlatformPlaces :
          /\ DateOf(orders[i].order_date) = PreviousPeriod.period_end
          /\ DateOf(orders[j].order_date) = CurrentPeriod.period_start
    /\ CurrentPeriod.total_orders = 1
    /\ PreviousPeriod.total_orders = 1

\* The other platform.
OtherPlatform(pl) == IF pl = "etsy" THEN "amazon" ELSE "etsy"

\* The records of a list that belong to a platform, in the order of the list.
RecordsOf(s, pl) == SelectSeq(s, LAMBDA r : r.platform = pl)

\* Lists that differ from the orders and the products of the state only in
\* records of the other platform: those records removed, and one more added
\* in front.
OrdersVaried ==
    LET other == OtherPlatform(store_summary.platform)
    IN  {RecordsOf(orders, store_summary.platform)} \cup
        {<<o>> \o orders : o \in {x \in StoreOrders :
            x.platform = other /\ DateOf(x.order_date) = StoreToday}}

ProductsVaried ==
    LET other == OtherPlatform(store_summary.platform)
    IN  {RecordsOf(products, store_summary.platform)} \cup
        {<<p>> \o products : p \in {x \in StoreProducts :
            x.platform = other /\ x.quantity = 0 /\ x.views > 0}}

\* C13: build_store_summary depends only on the records of the given
\* platform: a call on the same day with the same platform, store name and
\* period_days whose orders and products differ only in records of the other
\* platform returns a summary equal in every field.
C13_OtherPlatformIgnored ==
    store_summary.called =>
        \A os \in OrdersVaried, ps \in ProductsVaried :
            build_store_summary(os, ps, store_summary.platform,
                                store_summary.store_name,
                                store_summary.period_days) = store_summary.ret

\* A call on orders and products of both platforms, with an order of each
\* platform in the current period.
C13_Witness ==
    /\ store_summary.called
    /\ \E i, j \in 1..Len(orders) :
          /\ orders[i].platform = store_summary.platform
          /\ orders[j].platform = OtherPlatform(store_summary.platform)
          /\ Covers(CurrentPeriod, DateOf(orders[i].order_date))
          /\ Covers(CurrentPeriod, DateOf(orders[j].order_date))
    /\ \E i, j \in 1..Len(products) :
          /\ products[i].platform = store_summary.platform
          /\ products[j].platform = OtherPlatform(store_summary.platform)
    /\ CurrentPeriod.total_orders = 1
    /\ Len(store_summary.ret.out_of_stock_products)
         + Len(store_summary.ret.low_stock_products) = 1

(***************************************************************************)
(* Properties of the derived properties of Order, Product, PeriodMetrics.  *)
(***************************************************************************)
\* The fraction q is the quotient n / d (d # 0).
IsQuotient(q, n, d) == q.den > 0 /\ q.num * d = n * q.den

\* C14: every zero-denominator case returns 0.0: avg_order_value when no
\* order falls in the window (otherwise it is gross_revenue / total_orders),
\* Product.conversion_rate and Product.favorite_rate when views = 0, and
\* PeriodMetrics.fee_percentage when gross_revenue = 0.
C14_ZeroDenominators ==
    /\ period_metrics.called =>
          IF DatedWithin(period_metrics.start_date, period_metrics.end_date) = {}
          THEN period_metrics.ret.avg_order_value = Zero
          ELSE IsQuotient(period_metrics.ret.avg_order_value,
                          period_metrics.ret.gross_revenue,
                          period_metrics.ret.total_orders)
    /\ (derived.called /\ derived.of = "Product") =>
          (products[derived.index].views = 0 =>
              /\ derived.conversion_rate = Zero
              /\ derived.favorite_rate = Zero)
    /\ (derived.called /\ derived.of = "PeriodMetrics") =>
          (derived.metrics.gross_revenue = 0 => derived.fee_percentage = Zero)

\* The fee percentage read of a period with fees and no revenue, computed
\* over a window that holds no order of a non-empty list.
C14_Witness ==
    /\ period_metrics.called
    /\ orders # <<>>
    /\ DatedWithin(period_metrics.start_date, period_metrics.end_date) = {}
    /\ derived.called
    /\ derived.of = "PeriodMetrics"
    /\ derived.metrics.gross_revenue = 0
    /\ derived.metrics.total_fees > 0
    /\ derived.fee_percentage = Zero

\* C15: for any Order, gross_revenue = subtotal + shipping_cost, total_fees =
\* platform_fee + payment_processing_fee, net_revenue = gross_revenue -
\* total_fees - tax + discount, and item_count is the sum of the quantities
\* of its items (0 for an order with no items).
C15_OrderDerivedFields ==
    (derived.called /\ derived.of = "Order") =>
        LET o == orders[derived.index]
        IN  /\ derived.gross_revenue = o.subtotal + o.shipping_cost
            /\ derived.total_fees = o.platform_fee + o.payment_processing_fee
            /\ derived.net_revenue =
                  derived.gross_revenue - derived.total_fees - o.tax + o.discount
            /\ derived.item_count =
                  SumOver(1..Len(o.items), [i \in 1..Len(o.items) |-> o.items[i].quantity])
            /\ o.items = <<>> => derived.item_count = 0

\* The read of an order with items whose amounts are all non-zero, the
\* discount negative and the net revenue negative.
C15_Witness ==
    /\ derived.called
    /\ derived.of = "Order"
    /\ orders[derived.index].discount < 0
    /\ orders[derived.index].tax > 0
    /\ orders[derived.index].shipping_cost > 0
    /\ orders[derived.index].platform_fee > 0
    /\ orders[derived.index].payment_processing_fee > 0
    /\ derived.net_revenue < 0
    /\ derived.item_count = 3

(***************************************************************************)
(* Properties of score_listing.                                            *)
(***************************************************************************)
Scored == products[seo_score.index]

SubScores ==
    <<seo_score.ret.title_score, seo_score.ret.tags_score,
      seo_score.ret.description_score, seo_score.ret.engagement_score>>

\* C16: for every SEOScore returned by score_listing, total_score is the sum
\* of the four sub-scores, and grade is A iff total_score >= 85, B iff it is
\* 70..84, C iff 55..69, D iff 40..54 and F iff it is below 40.
C16_TotalAndGrade ==
    seo_score.called =>
        LET total == seo_score.ret.total_score
            grade == seo_score.ret.grade
        IN  /\ total = SubScores[1] + SubScores[2] + SubScores[3] + SubScores[4]
            /\ grade \in {"A", "B", "C", "D", "F"}
            /\ grade = "A" <=> total >= 85
            /\ grade = "B" <=> (70 <= total /\ total <= 84)
            /\ grade = "C" <=> (55 <= total /\ total <= 69)
            /\ grade = "D" <=> (40 <= total /\ total <= 54)
            /\ grade = "F" <=> total < 40

\* A score on the lower bound of the B band.
C16_Witness ==
    /\ seo_score.called
    /\ seo_score.ret.total_score = 70
    /\ seo_score.ret.grade = "B"

\* C17: for every product and platform, each of the four sub-scores returned
\* by score_listing lies in [0, 25] and total_score lies in [0, 100].
C17_ScoresInRange ==
    seo_score.called =>
        /\ \A i \in 1..4 : SubScores[i] \in 0..25
        /\ seo_score.ret.total_score \in 0..100

\* A title with a power word and no deduction, whose bonus is cut off at 25,
\* scored with a description that scores 0.
C17_Witness ==
    /\ seo_score.called
    /\ seo_score.ret.title_score = 25
    /\ \E pw \in POWER_WORDS : Contains(lower(Scored.title), pw)
    /\ seo_score.ret.description_score = 0
    /\ seo_score.ret.engagement_score = 25

\* The product of C18: empty title, no tags, no description, zero views.
BareListing ==
    /\ Scored.title = <<>>
    /\ Scored.tags = <<>>
    /\ Scored.description = NoValue
    /\ Scored.views = 0

\* C18 as stated: a product with an empty title, no tags, no description and
\* zero views is scored with a total of exactly 5 (title 0, tags 0,
\* description 0, engagement 5) and grade F.
C18_BareListingScoresFive ==
    (seo_score.called /\ BareListing) =>
        /\ SubScores = <<0, 0, 0, 5>>
        /\ seo_score.ret.total_score = 5
        /\ seo_score.ret.grade = "F"

\* C18 amended: a product with an empty title, no tags, no description and
\* zero views is scored, on either platform, with a total of exactly 32
\* (title 12, tags 15, description 0, engagement 5) and grade F.
C18_BareListingScoresThirtyTwo ==
    (seo_score.called /\ BareListing) =>
        /\ SubScores = <<12, 15, 0, 5>>
        /\ seo_score.ret.total_score = 32
        /\ seo_score.ret.grade = "F"

\* The bare product scored by the rules of Amazon.
C18_Witness ==
    /\ seo_score.called
    /\ BareListing
    /\ seo_score.ret.platform = "amazon"
    /\ seo_score.ret.total_score = 32

\* The product of C19: a title of 90 characters containing a power word, 13
\* different tags of more than one word each, a description of 400
\* characters with a line break, 600 views and a conversion rate of 3.0.
StrongListing ==
    /\ Len(Scored.title) = 90
    /\ \E pw \in POWER_WORDS : Contains(lower(Scored.title), pw)
    /\ Len(Scored.tags) = 13
    /\ \A i, j \in 1..13 : i # j => Scored.tags[i] # Scored.tags[j]
    /\ \A i \in 1..13 : \E k \in 1..Len(Scored.tags[i]) : Scored.tags[i][k] = " "
    /\ Scored.description # NoValue
    /\ Len(Scored.description[1]) = 400
    /\ \E k \in 1..400 : Scored.description[1][k] = "\n"
    /\ Scored.views = 600
    /\ Scored.total_sold * 100 = 3 * Scored.views

\* C19: a product with a 90-character title containing a power word, 13
\* unique multi-word tags, a 400-character description containing a line
\* break, 600 views and conversion_rate 3.0 is scored in the A band
\* (total_score >= 85), on either platform and whatever the title's word
\* count.
C19_StrongListingInBandA ==
    (seo_score.called /\ StrongListing) =>
        /\ seo_score.ret.total_score >= 85
        /\ seo_score.ret.grade = "A"

\* Such a product with a title of fewer words than the platform asks for,
\* all in upper case and with a weak word, and a tag that repeats another in
\* upper case: it scores exactly 85.
C19_Witness ==
    /\ seo_score.called
    /\ StrongListing
    /\ Len(split(Scored.title)) < 5
    /\ seo_score.ret.title_score = 15
    /\ seo_score.ret.tags_score = 20
    /\ seo_score.ret.total_score = 85

\* C20: score_listing is deterministic: a call with the product and the
\* platform of the call before it, in the same or in a later run of the
\* program, returns an equal score: equal sub-scores, total, grade and issue
\* list, with each issue's category, severity, message and suggestion.
C20_Deterministic ==
    [][(seo_score.called /\ seo_score'.called
          /\ seo_score'.index = seo_score.index
          /\ seo_score'.platform = seo_score.platform)
       => seo_score'.ret = seo_score.ret]_vars

(***************************************************************************)
(* Properties of the functions called one after another.                   *)
(***************************************************************************)

\* Every result held is the one the same call returns when it is the first
\* call of the program as it now runs.
FirstCallResults ==
    /\ period_metrics.called =>
          period_metrics.ret =
              calculate_period_metrics(orders, period_metrics.start_date,
                                       period_metrics.end_date)
    /\ top_sellers.called =>
          top_sellers.ret = get_top_sellers(orders, top_sellers.limit)
    /\ country_breakdown.called =>
          country_breakdown.ret = get_country_breakdown(orders)
    /\ daily_revenue.called =>
          daily_revenue.ret = get_daily_revenue(orders, daily_revenue.days)
    /\ seo_score.called =>
          seo_score.ret = score_listing(products[seo_score.index],
                                        seo_score.platform)

\* C21: calculate_period_metrics, get_top_sellers, get_country_breakdown,
\* get_daily_revenue and score_listing leave the orders and the products
\* passed to them unchanged, and after any sequence of calls a call returns
\* the result the same call returns as the first call of a fresh program.
C21_InputsKeptAndNoStateBetweenCalls ==
    /\ orders = CallOrders
    /\ products = CallProducts
    /\ FirstCallResults

(***************************************************************************)
(* Properties of the title score.                                          *)
(***************************************************************************)

\* The title rules of the platform the listing was scored for.
ScoredTitleRules ==
    IF seo_score.ret.platform = "etsy" THEN ETSY_TITLE_RULES ELSE AMAZON_TITLE_RULES

\* Is a word of the scored title, in lower case, a weak word?
WeakWordInTitle == WEAK_WORDS \cap Range(split(lower(Scored.title))) # {}

\* Is a power word part of the scored title, in lower case?
PowerWordInTitle == \E pw \in POWER_WORDS : Contains(lower(Scored.title), pw)

\* Is the scored title all upper case, with at least one letter?
TitleAllUpper ==
    /\ \E i \in 1..Len(Scored.title) : Scored.title[i] \in Uppercase
    /\ \A i \in 1..Len(Scored.title) : Scored.title[i] \notin Lowercase

\* The title is too short, has too few words, is all upper case, has a weak
\* word and no power word.
AllTitleDeductions ==
    /\ Len(Scored.title) < ScoredTitleRules.min_length
    /\ Len(split(Scored.title)) < ScoredTitleRules.min_words
    /\ TitleAllUpper
    /\ WeakWordInTitle
    /\ ~PowerWordInTitle

\* C22: for every title on either platform title_score is at least 4, and
\* a title that is too short, has too few words, is all upper case, has a
\* weak word and no power word scores exactly 4 (25 - 8 - 5 - 5 - 3).
C22_TitleScoreAtLeastFour ==
    seo_score.called =>
        /\ seo_score.ret.title_score >= 4
        /\ AllTitleDeductions => seo_score.ret.title_score = 4

C22_Witness ==
    /\ seo_score.called
    /\ seo_score.ret.title_score = 4
    /\ AllTitleDeductions

\* The title loses nothing for its length, its number of words or its case.
NoLengthWordsOrCaseDeduction ==
    /\ Len(Scored.title) >= ScoredTitleRules.min_length
    /\ Len(Scored.title) <= ScoredTitleRules.max_length
    /\ Len(split(Scored.title)) >= ScoredTitleRules.min_words
    /\ ~TitleAllUpper

\* C23: the power-word bonus of 3 is added and capped at 25 before the
\* weak-word penalty of 3 is taken: a title that has a weak word scores at
\* most 22, and exactly 22 when it also has a power word and loses nothing
\* for its length, its number of words or its case.
C23_BonusCappedBeforePenalty ==
    (seo_score.called /\ WeakWordInTitle) =>
        /\ seo_score.ret.title_score <= 22
        /\ (PowerWordInTitle /\ NoLengthWordsOrCaseDeduction) =>
              seo_score.ret.title_score = 22

C23_Witness ==
    /\ seo_score.called
    /\ WeakWordInTitle
    /\ PowerWordInTitle
    /\ NoLengthWordsOrCaseDeduction
    /\ seo_score.ret.title_score = 22

(***************************************************************************)
(* Properties of the tags score.                                           *)
(***************************************************************************)

\* The number of scored tags that contain a space.
TagsWithSpace ==
    Cardinality({i \in 1..Len(Scored.tags) : " " \in Range(Scored.tags[i])})

\* Are two of the scored tags equal when case is ignored?
TwoTagsEqualIgnoringCase ==
    \E i, j \in 1..Len(Scored.tags) :
        i < j /\ lower(Scored.tags[i]) = lower(Scored.tags[j])

\* What the tags lose: by their number and by single words on Etsy, for
\* being none on Amazon, and for a repeated tag on both.
TagDeductions ==
    LET n == Len(Scored.tags)
    IN  (IF seo_score.ret.platform = "etsy"
         THEN (IF n < 10 THEN 10 ELSE IF n < 13 THEN 3 ELSE 0)
              + (IF n > 0 /\ 2 * TagsWithSpace < n THEN 5 ELSE 0)
         ELSE (IF n = 0 THEN 10 ELSE 0))
        + (IF TwoTagsEqualIgnoringCase THEN 5 ELSE 0)

\* C24: tags_score is 25 less 10 for fewer than 10 tags, 3 for 10 to 12
\* tags and nothing for 13 or more, and 5 for a non-empty list with fewer
\* than half of its tags containing a space, on Etsy; less 10 for no tags on
\* Amazon; and on both less another 5 when two tags are equal ignoring
\* case.  An empty tag list scores 15 on both platforms.
C24_TagsScore ==
    seo_score.called =>
        /\ seo_score.ret.tags_score = 25 - TagDeductions
        /\ Scored.tags = <<>> => seo_score.ret.tags_score = 15

\* Twelve tags on Etsy, fewer than half of two words, one repeated.
C24_Witness ==
    /\ seo_score.called
    /\ seo_score.ret.platform = "etsy"
    /\ Len(Scored.tags) = 12
    /\ TwoTagsEqualIgnoringCase
    /\ seo_score.ret.tags_score = 12

(***************************************************************************)
(* Properties of the description score.                                    *)
(***************************************************************************)

\* The length of the scored description, 0 when there is none.
DescriptionLength ==
    IF Scored.description = NoValue THEN 0 ELSE Len(Scored.description[1])

\* Has the scored description a line break?
DescriptionLineBreak ==
    /\ Scored.description # NoValue
    /\ \E i \in 1..Len(Scored.description[1]) : Scored.description[1][i] = "\n"

\* C25: description_score depends only on the length L of the description
\* and on whether it has a line break: 0 when it is missing or empty, 10 for
\* L below 100, 17 for L from 100 to 200, 17 with and 14 without a line
\* break for L above 200 and below 300, 25 with and 22 without a line break
\* for L of 300 or more.
C25_DescriptionScore ==
    seo_score.called =>
        seo_score.ret.description_score =
            IF DescriptionLength = 0 THEN 0
            ELSE IF DescriptionLength < 100 THEN 10
            ELSE IF DescriptionLength <= 200 THEN 17
            ELSE IF DescriptionLength < 300
                 THEN (IF DescriptionLineBreak THEN 17 ELSE 14)
            ELSE (IF DescriptionLineBreak THEN 25 ELSE 22)

\* A description of one paragraph, longer than 200 and shorter than 300.
C25_Witness ==
    /\ seo_score.called
    /\ DescriptionLength > 200
    /\ DescriptionLength < 300
    /\ ~DescriptionLineBreak
    /\ seo_score.ret.description_score = 14

(***************************************************************************)
(* Properties of the engagement score.                                     *)
(***************************************************************************)

\* The base tier of the scored product, the first that matches; the
\* conversion rate is 100 * total_sold / views.
BaseTier ==
    IF Scored.views > 500 /\ 100 * Scored.total_sold > 2 * Scored.views THEN 25
    ELSE IF Scored.views > 200 /\ 100 * Scored.total_sold > Scored.views THEN 20
    ELSE IF Scored.views > 100 THEN 15
    ELSE IF Scored.views > 0 THEN 10
    ELSE 5

\* More than 200 views and a conversion rate below 1.0.
LowConversionPenalty ==
    Scored.views > 200 /\ 100 * Scored.total_sold < Scored.views

\* C26: the engagement score is the base tier, less 5 when the product has
\* more than 200 views and a conversion rate below 1.0; the penalty is taken
\* only from the third tier, so the score is then exactly 10; and the score
\* is always one of 5, 10, 15, 20 and 25.
C26_EngagementScore ==
    seo_score.called =>
        /\ seo_score.ret.engagement_score =
              BaseTier - (IF LowConversionPenalty THEN 5 ELSE 0)
        /\ LowConversionPenalty =>
              (BaseTier = 15 /\ seo_score.ret.engagement_score = 10)
        /\ seo_score.ret.engagement_score \in {5, 10, 15, 20, 25}

C26_Witness ==
    /\ seo_score.called
    /\ LowConversionPenalty
    /\ seo_score.ret.engagement_score = 10

(***************************************************************************)
(* Properties of the issue list.                                           *)
(***************************************************************************)

\* The rules that append an issue, in the order score_listing evaluates
\* them, each with the points it takes; the missing description takes all.
IssueRules ==
    << [category |-> "title", message |-> "Baslik cok kisa ({} karakter)", points |-> 8],
       [category |-> "title", message |-> "Baslik cok uzun ({} karakter)", points |-> 5],
       [category |-> "title", message |-> "Baslikta az kelime var ({})", points |-> 5],
       [category |-> "title", message |-> "Baslik tamamen buyuk harfle yazilmis", points |-> 5],
       [category |-> "title", message |-> "Baslikta guclu anahtar kelime yok", points |-> 0],
       [category |-> "title", message |-> "Baslikta zayif/genel kelimeler var", points |-> 3],
       [category |-> "tags", message |-> "Yetersiz tag sayisi ({}/13)", points |-> 10],
       [category |-> "tags", message |-> "Tag eksik ({}/13)", points |-> 3],
       [category |-> "tags", message |-> "Cogu tag tek kelime", points |-> 5],
       [category |-> "tags", message |-> "Backend keyword yok", points |-> 10],
       [category |-> "tags", message |-> "Tekrarlayan tag'ler var", points |-> 5],
       [category |-> "description", message |-> "Urun aciklamasi yok", points |-> 25],
       [category |-> "description", message |-> "Aciklama cok kisa ({} karakter)", points |-> 15],
       [category |-> "description", message |-> "Aciklama kisa ({} karakter)", points |-> 8],
       [category |-> "description", message |-> "Aciklama tek paragraf", points |-> 3],
       [category |-> "engagement", message |-> "Goruntulenme yok", points |-> 0],
       [category |-> "engagement", message |-> "Dusuk donusum ({:.1f}%)", points |-> 0],
       [category |-> "engagement",
        message |-> "Yuksek favori ({}) ama dusuk satis ({})", points |-> 0] >>

\* The places of IssueRules whose issue the k-th returned issue is.
RulesOf(k) ==
    {r \in 1..Len(IssueRules) :
        /\ IssueRules[r].category = seo_score.ret.issues[k].category
        /\ IssueRules[r].message = seo_score.ret.issues[k].message[1]}

\* The points the returned issues of a category stand for.
PointsOfIssues(category) ==
    sum([k \in 1..Len(seo_score.ret.issues) |->
            LET rule == IssueRules[CHOOSE r \in RulesOf(k) : TRUE]
            IN  IF rule.category = category THEN rule.points ELSE 0])

\* Is there a returned issue with this message?
Reported(message) ==
    \E k \in 1..Len(seo_score.ret.issues) : seo_score.ret.issues[k].message[1] = message

\* The title score the returned issues account for: the points of the issues
\* before the power-word rule, the bonus unless its issue is there, capped,
\* and the points of the weak-word issue.
TitleScoreOfIssues ==
    LET weak == IF Reported("Baslikta zayif/genel kelimeler var") THEN 3 ELSE 0
        before == 25 - (PointsOfIssues("title") - weak)
    IN  (IF Reported("Baslikta guclu anahtar kelime yok") THEN before
         ELSE IF before + 3 < 25 THEN before + 3 ELSE 25) - weak

\* C27: the issues are listed by scoring pass and rule order (title, tags,
\* description, engagement, and within a category in the order the rules are
\* evaluated), and every deduction from the title, tags or description score
\* comes with exactly one issue of that category: each score is what the
\* issues of its category account for.
C27_IssuesInRuleOrderOnePerDeduction ==
    seo_score.called =>
        /\ \A k \in 1..Len(seo_score.ret.issues) : Cardinality(RulesOf(k)) = 1
        /\ \A j, k \in 1..Len(seo_score.ret.issues) :
              j < k => \A r \in RulesOf(j), q \in RulesOf(k) : r < q
        /\ seo_score.ret.title_score = TitleScoreOfIssues
        /\ seo_score.ret.tags_score = 25 - PointsOfIssues("tags")
        /\ seo_score.ret.description_score = 25 - PointsOfIssues("description")

\* Issues of all four categories, several of the title and of the tags.
C27_Witness ==
    /\ seo_score.called
    /\ {seo_score.ret.issues[k].category : k \in 1..Len(seo_score.ret.issues)}
           = {"title", "tags", "description", "engagement"}
    /\ Len(seo_score.ret.issues) >= 10

(***************************************************************************)
(* Properties of a listing without issues.                                 *)
(***************************************************************************)

\* C28: whenever score_listing returns an empty issue list, the title, tags
\* and description scores are all 25, the engagement score is at least 10,
\* the total is at least 85 and the grade is A.
C28_NoIssuesGradeA ==
    (seo_score.called /\ seo_score.ret.issues = <<>>) =>
        /\ seo_score.ret.title_score = 25
        /\ seo_score.ret.tags_score = 25
        /\ seo_score.ret.description_score = 25
        /\ seo_score.ret.engagement_score >= 10
        /\ seo_score.ret.total_score >= 85
        /\ seo_score.ret.grade = "A"

\* No issue and the least total.
C28_Witness ==
    /\ seo_score.called
    /\ seo_score.ret.issues = <<>>
    /\ seo_score.ret.engagement_score = 10
    /\ seo_score.ret.total_score = 85

(***************************************************************************)
(* Properties of get_daily_revenue and calculate_period_metrics together.  *)
(***************************************************************************)

\* sum(daily.values()) of the returned mapping.
SumOfDailyValues ==
    sum([i \in 1..Len(daily_revenue.ret) |-> daily_revenue.ret[i].value])

\* The two calls were made for the same window: the days up to today.
SameWindow ==
    /\ daily_revenue.called
    /\ period_metrics.called
    /\ daily_revenue.days >= 0
    /\ period_metrics.start_date = today - daily_revenue.days
    /\ period_metrics.end_date = today

Optimized == products[optimization.index]

\* The existing tags of the optimized product that differ in lower case.
DistinctExistingTags == {lower(Optimized.tags[i]) : i \in 1..Len(Optimized.tags)}

\* C30: for any product, the number of its distinct existing tags (compared
\* in lower case) plus the number of tags suggested by optimize_listing is
\* at most 13, and no tag is suggested for a product that has 13 or more
\* distinct tags.
C30_TagsWithSuggestionsAtMostThirteen ==
    optimization.called =>
        /\ Cardinality(DistinctExistingTags) + Len(optimization.ret.suggested_tags) <= 13
        /\ Cardinality(DistinctExistingTags) >= 13 =>
              optimization.ret.suggested_tags = <<>>

====
